---- MODULE Spec2Model ----
(***************************************************************************)
(* Overlay, cross-parcel merge and classification-key extraction of the    *)
(* LandType service (app/geometry.py, app/arcgis.py).                      *)
(*                                                                         *)
(* Geometries are regions of a small grid: a geometry is a set of cells    *)
(* plus the defect, if any, that makes a library call on it raise.  A      *)
(* sound geometry never makes shapely or pyproj raise.                     *)
(***************************************************************************)
EXTENDS Integers, Sequences, FiniteSets, TLC

VARIABLES
    pc,                 \* position of the call being modelled
    fetched_fc,         \* thematic features as the map service returned them
    parcel_fc,          \* argument parcel_fc of prepare_clipped_shapes
    thematic_fc,        \* argument thematic_fc of prepare_clipped_shapes
    parcel_u,           \* local parcel_u
    i,                  \* index of the next thematic feature of the loop
    out,                \* local out
    by_key,             \* local by_key (insertion ordered)
    all_clipped_data,   \* argument of merge_clipped_shapes_across_lots
    union_fails,        \* the (code, name) groups whose unary_union raises
    result,             \* the returned list
    bounds4326,         \* argument bounds4326 of choose_raster_size
    max_px,             \* argument max_px of choose_raster_size
    size,               \* (width, height) returned by choose_raster_size
    color_code,         \* argument code of color_from_code
    raster_rgb,         \* the triple the raster paints the code with
    legend_rgb,         \* the triple of the code's legend entry
    style_color,        \* the fill colour of the code's vector style
    shapes_clipped_4326, \* argument of make_geotiff_rgba
    out_file,           \* the file at out_path
    code_to_id,         \* local code_to_id, as the codes in id order
    class_raster,       \* local class_raster
    rgba,               \* the four planes r, g, b, a
    legend,             \* local legend
    error,              \* the exception that ended make_geotiff_rgba
    kml_call,           \* the builder called and its arguments
    kml,                \* the document the builder returns
    attempts,           \* the intersection calls made for each thematic feature
    clip_geom,          \* argument geom of _clip_to_parcel_union
    parcel_union,       \* argument parcel_union of _clip_to_parcel_union
    clipped_geom,       \* what _clip_to_parcel_union returned
    matching,           \* the number of features of the layer that match the query
    paginate,           \* argument paginate of _arcgis_geojson_query
    result_record_count, \* local result_record_count
    result_offset,      \* local result_offset
    out_fc,             \* local out_fc
    requests,           \* the resultOffset of each request sent so far
    world,              \* what the map services hold for each requested parcel
    payload,            \* the request body of export_any
    lp,                 \* index of the next lot/plan of the loop over items
    bulk_groups,        \* local nested_groups of _create_bulk_kmz
    all_lt_clipped,     \* local all_lt_clipped
    all_veg_clipped,    \* local all_veg_clipped
    all_bore_points,    \* local all_bore_points
    kmz_assets,         \* local kmz_assets (insertion ordered)
    seen_all_bores,     \* local seen_all_bores
    manifest_rows,      \* local manifest_rows of export_any
    zf,                 \* the entries written to the ZIP bundle
    archive,            \* the entries of the KMZ archive written
    response,           \* the status code the handler answers with
    content             \* the JSON payload vector_geojson answers with

overlayVars == <<fetched_fc, parcel_fc, thematic_fc, parcel_u, i, out, by_key,
                 all_clipped_data, union_fails, result>>

renderVars == <<bounds4326, max_px, size, color_code, raster_rgb, legend_rgb, style_color,
                shapes_clipped_4326, out_file, code_to_id, class_raster, rgba,
                legend, error, kml_call, kml>>

clipVars == <<clip_geom, parcel_union, clipped_geom>>

queryVars == <<matching, paginate, result_record_count, result_offset, out_fc, requests>>

exportVars == <<world, payload, lp, bulk_groups, all_lt_clipped, all_veg_clipped,
                all_bore_points, kmz_assets, seen_all_bores, manifest_rows, zf,
                archive, response, content>>

serviceVars == <<clipVars, queryVars, exportVars>>

\* the state of the raster and colour calls
rasterVars == <<bounds4326, max_px, size, color_code, raster_rgb, legend_rgb, style_color,
                shapes_clipped_4326, out_file, code_to_id, class_raster, rgba,
                legend, error>>

vars == <<pc, overlayVars, renderVars, attempts, serviceVars>>

\* what is not yet computed
None == <<>>

---------------------------------------------------------------------------
(* Bounds *)

NumCells == 2
MaxFeatures == 2
MaxAttrs == 2
MaxLots == 2
MaxShapesPerLot == 2

Cells == 1..NumCells

---------------------------------------------------------------------------
(* Attribute values of a GeoJSON properties object.  s is what str() gives *)

Absent == [k |-> "absent", s |-> "None"]
Null == [k |-> "null", s |-> "None"]
StrV(x) == [k |-> "str", s |-> x]
NumV(x) == [k |-> "num", s |-> x]

PresentValues == {Null, StrV(""), StrV(" "), StrV("A"), StrV("N"), NumV("0"), NumV("7")}

CodeFields == <<"code", "CODE", "MAP_CODE", "CLASS_CODE", "lt_code_1">>
NameFields == <<"name", "NAME", "MAP_NAME", "CLASS_NAME", "lt_name_1">>

RECURSIVE SeqRange(_)
SeqRange(s) == IF s = <<>> THEN {} ELSE {Head(s)} \cup SeqRange(Tail(s))

Fields == SeqRange(CodeFields) \cup SeqRange(NameFields)

NoProps == [f \in Fields |-> Absent]

\* Python truthiness: None, "" and 0 are falsy
Truthy(v) == /\ v.k \in {"str", "num"}
             /\ ~(v.k = "str" /\ v.s = "")
             /\ ~(v.k = "num" /\ v.s = "0")

\* a or b
Or(a, b) == IF Truthy(a) THEN a ELSE b

\* str(v)
Str(v) == v.s

\* props.get(field): None when the key is missing
Get(props, field) == IF props[field].k = "absent" THEN Null ELSE props[field]

\* props.get(field, ""): "" when the key is missing, None when it holds null
GetOrEmpty(props, field) == IF props[field].k = "absent" THEN StrV("") ELSE props[field]

\* s.strip() on the strings of the model
Strip(s) == IF s = " " THEN "" ELSE s

LANDTYPES_CODE_FIELD == "lt_code_1"
LANDTYPES_NAME_FIELD == "lt_name_1"

\* one iteration of _standardise_code_name: the properties it writes back
StandardiseProps(props, code_field, name_field) ==
    LET code0 == Strip(Str(GetOrEmpty(props, code_field)))
        name0 == Strip(Str(GetOrEmpty(props, name_field)))
        code == IF code0 = "" /\ name0 # "" THEN name0 ELSE code0
        name == IF name0 = "" /\ code # "" THEN code ELSE name0
        codeOut == IF code # "" THEN code ELSE "UNK"
        nameOut == IF name # "" THEN name ELSE IF code # "" THEN code ELSE "Unknown"
    IN  [props EXCEPT !["code"] = StrV(codeOut), !["name"] = StrV(nameOut)]

_standardise_code_name(fc, code_field, name_field) ==
    [n \in 1..Len(fc) |->
        [fc[n] EXCEPT !.props = StandardiseProps(fc[n].props, code_field, name_field)]]

\* CodeOf reading MAP_CODE before CODE
CodeOfSwapped(props) ==
    Str(Or(Get(props, "code"), Or(Get(props, "MAP_CODE"), Or(Get(props, "CODE"),
        Or(Get(props, "CLASS_CODE"), Or(Get(props, "lt_code_1"), StrV("UNK")))))))

\* code of a thematic feature, line 60
CodeOf(props) ==
    Str(Or(Get(props, "code"), Or(Get(props, "CODE"), Or(Get(props, "MAP_CODE"),
        Or(Get(props, "CLASS_CODE"), Or(Get(props, "lt_code_1"), StrV("UNK")))))))

\* name of a thematic feature, line 61
NameOf(props) ==
    Str(Or(Get(props, "name"), Or(Get(props, "NAME"), Or(Get(props, "MAP_NAME"),
        Or(Get(props, "CLASS_NAME"), Or(Get(props, "lt_name_1"), StrV(CodeOf(props))))))))

---------------------------------------------------------------------------
(* Geometries *)

Defects == {"none", "unparsable", "invalid", "unrepairable",
            "eq_proj_fails", "all_proj_fail", "union_fails"}

Geom(cells, defect) == [cells |-> cells, defect |-> defect]

GeometryCollection == Geom({}, "none")

is_empty(g) == g.cells = {}

\* shape(f.get("geometry")) raises
ShapeRaises(g) == g.defect = "unparsable"

\* a.intersection(g) raises on a topologically invalid operand
IntersectionRaises(a, g) == g.defect \in {"invalid", "unrepairable"}

\* intersection that hands the thematic geometry back unclipped
intersectionUnclipped(a, g) == g

intersection(a, g) == Geom(a.cells \cap g.cells, g.defect)

\* make_valid(g): repairs what can be repaired
make_valid(g) == IF g.defect = "invalid" THEN Geom(g.cells, "none") ELSE g

\* a.union(g) raises
UnionRaises(a, g) == a.defect = "union_fails" \/ g.defect = "union_fails"

\* union that keeps only the geometry added last
unionKeepLast(a, g) == g

union(a, g) == Geom(a.cells \cup g.cells, a.defect)

RECURSIVE SumOver(_, _)
SumOver(S, w) ==
    IF S = {} THEN 0
    ELSE LET c == CHOOSE x \in S : TRUE IN w[c] + SumOver(S \ {c}, w)

\* planar area of a cell in EPSG:6933 and in EPSG:3857, in hectares
Area6933 == [c \in Cells |-> c]
Area3857 == [c \in Cells |-> 2 * c + 1]

AreaHaRaises(g) == g.defect = "all_proj_fail"

\* _area_ha measuring in EPSG:3857 only
area_ha_3857(g) == SumOver(g.cells, Area3857)

_area_ha(g) ==
    IF g.defect \in {"eq_proj_fails", "all_proj_fail"}
    THEN SumOver(g.cells, Area3857)
    ELSE SumOver(g.cells, Area6933)

---------------------------------------------------------------------------
(* to_shapely_union *)

RECURSIVE ParsedNonEmpty(_)
ParsedNonEmpty(fc) ==
    IF fc = <<>> THEN <<>>
    ELSE LET g == Head(fc).geometry
             rest == ParsedNonEmpty(Tail(fc))
         IN  IF ShapeRaises(g) \/ is_empty(g) THEN rest ELSE <<g>> \o rest

RECURSIVE CellsOf(_)
CellsOf(geoms) ==
    IF geoms = <<>> THEN {} ELSE Head(geoms).cells \cup CellsOf(Tail(geoms))

UnaryUnionRaises(geoms) ==
    \E n \in 1..Len(geoms) : geoms[n].defect \in {"invalid", "unrepairable", "union_fails"}

unary_union(geoms) == Geom(CellsOf(geoms), "none")

\* [raised, value]
to_shapely_union(fc) ==
    LET geoms == ParsedNonEmpty(fc)
        geoms2 == [n \in 1..Len(geoms) |-> make_valid(geoms[n])]
    IN  IF geoms = <<>> THEN [raised |-> FALSE, value |-> GeometryCollection]
        ELSE IF ~UnaryUnionRaises(geoms) THEN [raised |-> FALSE, value |-> unary_union(geoms)]
        ELSE IF ~UnaryUnionRaises(geoms2) THEN [raised |-> FALSE, value |-> unary_union(geoms2)]
        ELSE [raised |-> TRUE, value |-> GeometryCollection]

---------------------------------------------------------------------------
(* prepare_clipped_shapes *)

Item(g, c, n, a) == [geom |-> g, code |-> c, name |-> n, area |-> a]

\* the body of the loop over thematic features, lines 58-75:
\* kind is "skip" (continue), "append" or "raise"
ProcessFeature(pu, f) ==
    LET code == CodeOf(f.props)
        name == NameOf(f.props)
        g == f.geometry
        first == intersection(pu, g)
        retry == intersection(pu, make_valid(g))
        skip == [kind |-> "skip", item |-> Item(GeometryCollection, code, name, 0)]
        Keep(inter) ==
            IF is_empty(inter) THEN skip
            ELSE IF AreaHaRaises(inter)
                 THEN [kind |-> "raise", item |-> Item(inter, code, name, 0)]
                 ELSE [kind |-> "append", item |-> Item(inter, code, name, _area_ha(inter))]
    IN  IF ShapeRaises(g) THEN skip
        ELSE IF is_empty(g) THEN skip
        ELSE IF ~IntersectionRaises(pu, g) THEN Keep(first)
        ELSE IF ~IntersectionRaises(pu, make_valid(g)) THEN Keep(retry)
        ELSE skip

\* a call of parcel_u.intersection: its operand and whether it raised
Call(operand, raised) == [operand |-> operand, raised |-> raised]

\* intersection calls that repair the geometry whether or not the first
\* call raised
IntersectionCallsAlwaysRepair(pu, f) ==
    LET g == f.geometry
    IN  IF ShapeRaises(g) \/ is_empty(g) THEN <<>>
        ELSE <<Call("g", IntersectionRaises(pu, g)),
               Call("make_valid(g)", IntersectionRaises(pu, make_valid(g)))>>

\* the calls of parcel_u.intersection lines 66-72 make for one feature,
\* in order
IntersectionCalls(pu, f) ==
    LET g == f.geometry
    IN  IF ShapeRaises(g) \/ is_empty(g) THEN <<>>
        ELSE IF ~IntersectionRaises(pu, g) THEN <<Call("g", FALSE)>>
        ELSE <<Call("g", TRUE),
               Call("make_valid(g)", IntersectionRaises(pu, make_valid(g)))>>

\* KeyIndex that never finds the key
KeyIndexNone(bk, c, n) == 0

\* position of key (c, n) in by_key, 0 when absent
KeyIndex(bk, c, n) ==
    IF \E k \in 1..Len(bk) : bk[k].code = c /\ bk[k].name = n
    THEN CHOOSE k \in 1..Len(bk) : bk[k].code = c /\ bk[k].name = n
    ELSE 0

\* the dissolve loop, lines 77-84: [raised, by_key]
RECURSIVE DissolveFrom(_, _)
DissolveFrom(items, bk) ==
    IF items = <<>> THEN [raised |-> FALSE, by_key |-> bk]
    ELSE LET it == Head(items)
             k == KeyIndex(bk, it.code, it.name)
         IN  IF k = 0
             THEN DissolveFrom(Tail(items), Append(bk, it))
             ELSE IF UnionRaises(bk[k].geom, it.geom)
                  THEN [raised |-> TRUE, by_key |-> bk]
                  ELSE DissolveFrom(Tail(items),
                           [bk EXCEPT ![k].geom = union(bk[k].geom, it.geom),
                                      ![k].area = bk[k].area + it.area])

\* line 85
Final(bk) == SelectSeq(bk, LAMBDA e : ~is_empty(e.geom))

\* Start raising when the parcel union is empty
StartRaisesOnEmpty ==
    /\ pc = "call"
    /\ LET u == to_shapely_union(parcel_fc)
       IN  /\ parcel_u' = u.value
           /\ pc' = IF u.raised \/ is_empty(u.value) THEN "raised" ELSE "loop"
    /\ result' = <<>>
    /\ out' = <<>>
    /\ i' = 1
    /\ attempts' = <<>>
    /\ UNCHANGED <<fetched_fc, parcel_fc, thematic_fc, by_key, all_clipped_data, union_fails>>
    /\ UNCHANGED renderVars
    /\ UNCHANGED serviceVars

\* lines 55-57
Start ==
    /\ pc = "call"
    /\ LET u == to_shapely_union(parcel_fc)
       IN  /\ parcel_u' = u.value
           /\ pc' = IF u.raised THEN "raised"
                    ELSE IF is_empty(u.value) THEN "done" ELSE "loop"
    /\ result' = <<>>
    /\ out' = <<>>
    /\ i' = 1
    /\ attempts' = <<>>
    /\ UNCHANGED <<fetched_fc, parcel_fc, thematic_fc, by_key, all_clipped_data, union_fails>>
    /\ UNCHANGED renderVars
    /\ UNCHANGED serviceVars

\* one iteration of the loop of lines 58-75
Step ==
    /\ pc = "loop"
    /\ i <= Len(thematic_fc)
    /\ LET r == ProcessFeature(parcel_u, thematic_fc[i])
       IN  /\ out' = IF r.kind = "append" THEN Append(out, r.item) ELSE out
           /\ pc' = IF r.kind = "raise" THEN "raised" ELSE "loop"
    /\ i' = i + 1
    /\ attempts' = Append(attempts, IntersectionCalls(parcel_u, thematic_fc[i]))
    /\ UNCHANGED <<fetched_fc, parcel_fc, thematic_fc, parcel_u, by_key,
                   all_clipped_data, union_fails, result>>
    /\ UNCHANGED renderVars
    /\ UNCHANGED serviceVars

\* lines 76-86
Dissolve ==
    /\ pc = "loop"
    /\ i > Len(thematic_fc)
    /\ LET d == DissolveFrom(out, <<>>)
       IN  /\ by_key' = d.by_key
           /\ pc' = IF d.raised THEN "raised" ELSE "done"
           /\ result' = IF d.raised THEN <<>> ELSE Final(d.by_key)
    /\ UNCHANGED <<fetched_fc, parcel_fc, thematic_fc, parcel_u, i, out,
                   all_clipped_data, union_fails>>
    /\ UNCHANGED renderVars
    /\ UNCHANGED <<attempts, serviceVars>>

\* fetch_landtypes_intersecting_envelope hands the standardised collection on
Standardise ==
    /\ pc = "fetched"
    /\ thematic_fc' = _standardise_code_name(fetched_fc, LANDTYPES_CODE_FIELD, LANDTYPES_NAME_FIELD)
    /\ pc' = "call"
    /\ UNCHANGED <<fetched_fc, parcel_fc, parcel_u, i, out, by_key,
                   all_clipped_data, union_fails, result>>
    /\ UNCHANGED renderVars
    /\ UNCHANGED <<attempts, serviceVars>>

\* the loop of lines 58-75 run to its end: [raised, out]
RECURSIVE LoopFrom(_, _, _)
LoopFrom(pu, fc, acc) ==
    IF fc = <<>> THEN [raised |-> FALSE, out |-> acc]
    ELSE LET r == ProcessFeature(pu, Head(fc))
         IN  IF r.kind = "raise" THEN [raised |-> TRUE, out |-> acc]
             ELSE LoopFrom(pu, Tail(fc), IF r.kind = "append" THEN Append(acc, r.item) ELSE acc)

\* the whole call: [raised, value]
prepare_clipped_shapes(pfc, tfc) ==
    LET u == to_shapely_union(pfc)
        l == LoopFrom(u.value, tfc, <<>>)
        d == DissolveFrom(l.out, <<>>)
    IN  IF u.raised THEN [raised |-> TRUE, value |-> <<>>]
        ELSE IF is_empty(u.value) THEN [raised |-> FALSE, value |-> <<>>]
        ELSE IF l.raised \/ d.raised THEN [raised |-> TRUE, value |-> <<>>]
        ELSE [raised |-> FALSE, value |-> Final(d.by_key)]

---------------------------------------------------------------------------
(* merge_clipped_shapes_across_lots *)

RECURSIVE Flatten(_)
Flatten(lots) == IF lots = <<>> THEN <<>> ELSE Head(lots) \o Flatten(Tail(lots))

MergeEntry(c, n, gs, a) == [code |-> c, name |-> n, geoms |-> gs, total_area |-> a]

\* CollectFrom that assigns total_area instead of adding to it
RECURSIVE CollectFromOverwrite(_, _)
CollectFromOverwrite(items, bk) ==
    IF items = <<>> THEN bk
    ELSE LET it == Head(items)
             found == {k \in 1..Len(bk) : bk[k].code = it.code /\ bk[k].name = it.name}
             bk1 == IF found = {} THEN Append(bk, MergeEntry(it.code, it.name, <<>>, 0)) ELSE bk
             k1 == IF found = {} THEN Len(bk1) ELSE CHOOSE k \in found : TRUE
         IN  CollectFromOverwrite(Tail(items),
                 [bk1 EXCEPT ![k1].geoms = Append(bk1[k1].geoms, it.geom),
                             ![k1].total_area = it.area])

\* lines 94-101
RECURSIVE CollectFrom(_, _)
CollectFrom(items, bk) ==
    IF items = <<>> THEN bk
    ELSE LET it == Head(items)
             k == KeyIndex(bk, it.code, it.name)
             bk1 == IF k = 0 THEN Append(bk, MergeEntry(it.code, it.name, <<>>, 0)) ELSE bk
             k1 == IF k = 0 THEN Len(bk1) ELSE k
         IN  CollectFrom(Tail(items),
                 [bk1 EXCEPT ![k1].geoms = Append(bk1[k1].geoms, it.geom),
                             ![k1].total_area = bk1[k1].total_area + it.area])

\* MergeGroup that drops the group when its union raises
MergeGroupDropOnFail(e) ==
    IF e.geoms = <<>> \/ UnaryUnionRaises(e.geoms) \/ is_empty(unary_union(e.geoms)) THEN <<>>
    ELSE <<Item(unary_union(e.geoms), e.code, e.name, e.total_area)>>

\* lines 105-128 for one group: the shapes it adds to merged.
\* A MultiPolygon of one part is replaced by that part, which covers the same region.
MergeGroup(e) ==
    LET merged_geom == unary_union(e.geoms)
    IN  IF e.geoms = <<>> THEN <<>>
        ELSE IF UnaryUnionRaises(e.geoms)
             THEN <<Item(e.geoms[1], e.code, e.name, e.total_area)>>
             ELSE IF is_empty(merged_geom) THEN <<>>
             ELSE <<Item(merged_geom, e.code, e.name, e.total_area)>>

RECURSIVE MergeAll(_)
MergeAll(bk) == IF bk = <<>> THEN <<>> ELSE MergeGroup(Head(bk)) \o MergeAll(Tail(bk))

\* lines 90-101
Collect ==
    /\ pc = "merge_call"
    /\ IF all_clipped_data = <<>>
       THEN /\ pc' = "done"
            /\ by_key' = <<>>
       ELSE /\ pc' = "merge_groups"
            /\ by_key' = CollectFrom(Flatten(all_clipped_data), <<>>)
    /\ result' = <<>>
    /\ UNCHANGED <<fetched_fc, parcel_fc, thematic_fc, parcel_u, i, out,
                   all_clipped_data, union_fails>>
    /\ UNCHANGED renderVars
    /\ UNCHANGED <<attempts, serviceVars>>

\* lines 103-130
MergeGroups ==
    /\ pc = "merge_groups"
    /\ result' = MergeAll(by_key)
    /\ union_fails' = {<<by_key[k].code, by_key[k].name>> :
                          k \in {m \in 1..Len(by_key) : UnaryUnionRaises(by_key[m].geoms)}}
    /\ pc' = "done"
    /\ UNCHANGED <<fetched_fc, parcel_fc, thematic_fc, parcel_u, i, out, by_key,
                   all_clipped_data>>
    /\ UNCHANGED renderVars
    /\ UNCHANGED <<attempts, serviceVars>>

---------------------------------------------------------------------------
(* Inputs *)

Feature(props, g) == [props |-> props, geometry |-> g]

With(pairs) == pairs @@ NoProps

PropsSamples ==
    { With([code |-> StrV("A")]),
      With([code |-> StrV("A"), name |-> StrV("N")]),
      With([name |-> StrV("N")]) }

SomeProps == With([code |-> StrV("A")])

\* regions used for the defective geometries
DefectRegions == {Cells, {1}}

ThematicFeatures ==
    {Feature(p, Geom(S, "none")) : p \in PropsSamples, S \in SUBSET Cells}
    \cup {Feature(SomeProps, Geom(S, d)) : S \in DefectRegions, d \in {"invalid", "eq_proj_fails"}}
    \cup {Feature(SomeProps, Geom(Cells, d)) : d \in {"unparsable", "unrepairable", "all_proj_fail"}}
    \cup {Feature(p, Geom(Cells, "union_fails")) : p \in PropsSamples}

RECURSIVE SeqsUpTo(_, _)
SeqsUpTo(S, n) ==
    IF n = 0 THEN {<<>>}
    ELSE LET shorter == SeqsUpTo(S, n - 1)
         IN  shorter \cup {Append(s, x) : s \in shorter, x \in S}

ParcelFeature(g) == [geometry |-> g]

ParcelSamples ==
    { <<>>,
      <<ParcelFeature(Geom(Cells, "unparsable")), ParcelFeature(Geom({}, "none"))>>,
      <<ParcelFeature(Geom({1}, "none"))>>,
      <<ParcelFeature(Geom({1}, "invalid")), ParcelFeature(Geom(Cells, "unparsable")),
        ParcelFeature(Geom(Cells \ {1}, "none"))>>,
      <<ParcelFeature(Geom(Cells, "unrepairable"))>> }

RECURSIVE PropsWith(_)
PropsWith(n) ==
    IF n = 0 THEN {NoProps}
    ELSE LET fewer == PropsWith(n - 1)
         IN  fewer \cup {[p EXCEPT ![f] = v] : p \in fewer, f \in Fields, v \in PresentValues}

\* the renderers are not running
RasterIdle ==
    /\ bounds4326 = <<0, 0, 0, 0>>
    /\ max_px = 0
    /\ size = None
    /\ color_code = ""
    /\ raster_rgb = None
    /\ legend_rgb = None
    /\ style_color = None
    /\ shapes_clipped_4326 = <<>>
    /\ out_file = None
    /\ code_to_id = <<>>
    /\ class_raster = None
    /\ rgba = None
    /\ legend = None
    /\ error = "none"

RenderIdle ==
    /\ RasterIdle
    /\ kml_call = None
    /\ kml = None

ClipIdle ==
    /\ clip_geom = None
    /\ parcel_union = None
    /\ clipped_geom = None

QueryIdle ==
    /\ matching = 0
    /\ paginate = FALSE
    /\ result_record_count = 0
    /\ result_offset = 0
    /\ out_fc = None
    /\ requests = <<>>

ExportIdle ==
    /\ world = <<>>
    /\ payload = None
    /\ lp = 1
    /\ bulk_groups = <<>>
    /\ all_lt_clipped = <<>>
    /\ all_veg_clipped = <<>>
    /\ all_bore_points = <<>>
    /\ kmz_assets = <<>>
    /\ seen_all_bores = {}
    /\ manifest_rows = <<>>
    /\ zf = <<>>
    /\ archive = None
    /\ response = 0
    /\ content = None

ServiceIdle == ClipIdle /\ QueryIdle /\ ExportIdle

InitCommon ==
    /\ parcel_u = GeometryCollection
    /\ i = 1
    /\ out = <<>>
    /\ by_key = <<>>
    /\ all_clipped_data = <<>>
    /\ union_fails = {}
    /\ result = <<>>
    /\ attempts = <<>>
    /\ RenderIdle
    /\ ServiceIdle

\* a direct call of prepare_clipped_shapes
InitOverlay ==
    /\ pc = "call"
    /\ parcel_fc \in ParcelSamples
    /\ thematic_fc \in SeqsUpTo(ThematicFeatures, MaxFeatures)
    /\ fetched_fc = thematic_fc
    /\ InitCommon

\* one thematic record with any properties, inside the parcel
OneRecord == {<<Feature(p, Geom(Cells, "none"))>> : p \in PropsWith(MaxAttrs)}

\* a direct call of prepare_clipped_shapes on one record
InitKey ==
    /\ pc = "call"
    /\ parcel_fc = <<ParcelFeature(Geom(Cells, "none"))>>
    /\ thematic_fc \in OneRecord
    /\ fetched_fc = thematic_fc
    /\ InitCommon

\* one land-type record as the map service returned it, standardised and
\* then overlaid
InitPipeline ==
    /\ pc = "fetched"
    /\ parcel_fc = <<ParcelFeature(Geom(Cells, "none"))>>
    /\ fetched_fc \in OneRecord
    /\ thematic_fc = fetched_fc
    /\ InitCommon

MergeKeys == {<<"A", "A">>, <<"A", "N">>, <<"B", "B">>}

\* the region of the l-th parcel: neighbouring parcels are disjoint
LotRegion(l) == {((l - 1) % NumCells) + 1}

\* shapes as prepare_clipped_shapes returns them for the l-th parcel:
\* non-empty geometries inside the parcel
ClippedShapes(l) ==
    {Item(Geom(LotRegion(l), "none"), k[1], k[2], SumOver(LotRegion(l), Area6933)) : k \in MergeKeys}
    \cup {Item(Geom(LotRegion(l), "union_fails"), "A", "A", SumOver(LotRegion(l), Area3857))}

\* one parcel's overlay: no key twice
LotLists(l) ==
    {s \in SeqsUpTo(ClippedShapes(l), MaxShapesPerLot) :
        \A a, b \in 1..Len(s) : a # b => <<s[a].code, s[a].name>> # <<s[b].code, s[b].name>>}

RECURSIVE LotsUpTo(_)
LotsUpTo(n) ==
    IF n = 0 THEN {<<>>}
    ELSE LET shorter == LotsUpTo(n - 1)
         IN  shorter \cup {Append(s, x) : s \in {t \in shorter : Len(t) = n - 1}, x \in LotLists(n)}

InitMerge ==
    /\ pc = "merge_call"
    /\ all_clipped_data \in LotsUpTo(MaxLots)
    /\ parcel_fc = <<>>
    /\ thematic_fc = <<>>
    /\ fetched_fc = <<>>
    /\ parcel_u = GeometryCollection
    /\ i = 1
    /\ out = <<>>
    /\ by_key = <<>>
    /\ union_fails = {}
    /\ result = <<>>
    /\ attempts = <<>>
    /\ RenderIdle
    /\ ServiceIdle

NextMerge == Collect \/ MergeGroups

SpecMerge == InitMerge /\ [][NextMerge]_vars

NextOverlay == Start \/ Step \/ Dissolve

NextPipeline == Standardise \/ Start \/ Step \/ Dissolve

SpecOverlay == InitOverlay /\ [][NextOverlay]_vars

SpecKey == InitKey /\ [][NextOverlay]_vars

SpecPipeline == InitPipeline /\ [][NextPipeline]_vars

---------------------------------------------------------------------------
(* Colour of a classification code (app/colors.py) *)

\* hashlib.md5(code.encode("utf-8")).digest()[0:3] of the strings the model
\* uses as codes; every byte value 0..255 occurs among them
Md5Table ==
    {
     <<"A&B", <<86, 141, 68>>>>,
     <<"", <<212, 29, 140>>>>, <<"A", <<127, 197, 98>>>>, <<"B", <<157, 94, 214>>>>, <<"N", <<141, 156, 48>>>>,
     <<"UNK", <<7, 8, 218>>>>, <<"None", <<106, 223, 151>>>>, <<"BH5", <<250, 28, 20>>>>, <<"DM7", <<249, 27, 19>>>>,
     <<"A1", <<39, 242, 55>>>>, <<"A2", <<198, 189, 246>>>>, <<"A3", <<101, 147, 215>>>>, <<"A4", <<12, 47, 58>>>>,
     <<"A6", <<11, 61, 86>>>>, <<"A7", <<190, 82, 59>>>>, <<"A9", <<134, 80, 227>>>>, <<"B1", <<201, 81, 37>>>>,
     <<"B2", <<187, 217, 123>>>>, <<"B5", <<42, 26, 178>>>>, <<"B6", <<104, 177, 241>>>>, <<"B7", <<216, 73, 129>>>>,
     <<"B9", <<24, 252, 144>>>>, <<"C6", <<126, 139, 159>>>>, <<"C8", <<114, 121, 153>>>>, <<"C9", <<239, 89, 161>>>>,
     <<"D0", <<14, 62, 6>>>>, <<"D3", <<163, 222, 182>>>>, <<"D7", <<148, 245, 166>>>>, <<"D9", <<173, 183, 191>>>>,
     <<"E1", <<72, 237, 93>>>>, <<"E4", <<33, 87, 213>>>>, <<"E6", <<36, 113, 22>>>>, <<"F2", <<254, 92, 54>>>>,
     <<"F3", <<75, 107, 244>>>>, <<"F6", <<31, 175, 66>>>>, <<"G0", <<34, 41, 78>>>>, <<"G3", <<188, 117, 202>>>>,
     <<"G4", <<160, 25, 4>>>>, <<"H8", <<185, 137, 90>>>>, <<"J7", <<63, 145, 52>>>>, <<"K6", <<220, 224, 235>>>>,
     <<"L1", <<158, 196, 192>>>>, <<"L3", <<132, 44, 230>>>>, <<"L6", <<194, 136, 131>>>>, <<"M4", <<102, 181, 67>>>>,
     <<"P6", <<83, 69, 60>>>>, <<"R4", <<135, 23, 206>>>>, <<"R5", <<225, 184, 5>>>>, <<"R6", <<243, 142, 231>>>>,
     <<"S3", <<226, 171, 124>>>>, <<"V2", <<236, 118, 95>>>>, <<"X2", <<84, 16, 91>>>>, <<"X5", <<77, 193, 180>>>>,
     <<"Y4", <<154, 108, 211>>>>, <<"Y8", <<200, 210, 170>>>>, <<"AF0", <<146, 109, 105>>>>, <<"AI8", <<207, 76, 232>>>>,
     <<"AI9", <<99, 179, 229>>>>, <<"AL0", <<238, 97, 110>>>>, <<"AL3", <<203, 209, 13>>>>, <<"AL4", <<56, 40, 150>>>>,
     <<"AN4", <<49, 152, 103>>>>, <<"AO5", <<133, 43, 21>>>>, <<"AP7", <<30, 128, 219>>>>, <<"BE6", <<46, 199, 53>>>>,
     <<"BZ2", <<2, 138, 10>>>>, <<"CO8", <<74, 1, 149>>>>, <<"CS2", <<174, 247, 164>>>>, <<"CW4", <<0, 125, 234>>>>,
     <<"DE3", <<240, 143, 195>>>>, <<"DL7", <<71, 38, 204>>>>, <<"DQ1", <<176, 122, 85>>>>, <<"EI4", <<32, 130, 248>>>>,
     <<"EK8", <<18, 221, 79>>>>, <<"IB4", <<9, 64, 172>>>>, <<"JL8", <<168, 251, 165>>>>, <<"NA4", <<208, 233, 112>>>>,
     <<"OR3", <<15, 51, 167>>>>, <<"QS8", <<17, 205, 228>>>>, <<"QT5", <<186, 111, 45>>>>, <<"K4", <<35, 255, 73>>>>,
     <<"N8", <<115, 100, 242>>>>, <<"Y7", <<88, 148, 50>>>>, <<"CJ5", <<49, 3, 70>>>>, <<"EL7", <<65, 253, 30>>>>,
     <<"GK3", <<120, 76, 155>>>>, <<"GT3", <<96, 118, 169>>>>, <<"HN2", <<136, 162, 68>>>>, <<"AH5", <<44, 57, 141>>>>,
     <<"AO4", <<236, 84, 116>>>>, <<"AR7", <<80, 194, 119>>>>
    }

Md5Domain == {e[1] : e \in Md5Table}

md5(s) == (CHOOSE e \in Md5Table : e[1] = s)[2]

HexDigits == <<"0", "1", "2", "3", "4", "5", "6", "7",
               "8", "9", "a", "b", "c", "d", "e", "f">>

\* format(v, "02x")
Hex2(v) == <<HexDigits[(v \div 16) + 1], HexDigits[(v % 16) + 1]>>

\* the first six characters of .hexdigest()
hexdigest(d) == Hex2(d[1]) \o Hex2(d[2]) \o Hex2(d[3])

DigitValue(c) == (CHOOSE k \in 1..16 : HexDigits[k] = c) - 1

\* int(h, 16) of a two-character string
int16(h) == (16 * DigitValue(h[1])) + DigitValue(h[2])

\* a channel that halves the hash byte
UpperHalfByHalving(v) == 128 + (v \div 2)

\* int(128 + (v / 255) * 127): the product is an integer only at v = 0 and
\* v = 255 and otherwise at least 1/255 away from one, so the float result
\* is the exact floor
UpperHalf(v) == 128 + ((127 * v) \div 255)

\* a colour that depends on where it is asked for
color_from_code_per_site(c) ==
    LET h == hexdigest(md5(c))
        salt == IF pc = "legend_color" THEN 1 ELSE 0
    IN  <<UpperHalf(255 * salt),
          UpperHalf(int16(SubSeq(h, 3, 4))),
          UpperHalf(int16(SubSeq(h, 5, 6)))>>

\* lines 4-14
color_from_code(c) ==
    LET h == hexdigest(md5(c))
        r == int16(SubSeq(h, 1, 2))
        g == int16(SubSeq(h, 3, 4))
        b == int16(SubSeq(h, 5, 6))
    IN  <<UpperHalf(r), UpperHalf(g), UpperHalf(b)>>

\* max(0, min(255, int(v)))
ClampByte(v) == IF v < 0 THEN 0 ELSE IF v > 255 THEN 255 ELSE v

\* app/kml.py lines 14-17: alpha, blue, green, red as eight hex characters
_kml_color_abgr_with_alpha(rgb, alpha) ==
    Hex2(ClampByte(alpha)) \o Hex2(ClampByte(rgb[3]))
        \o Hex2(ClampByte(rgb[2])) \o Hex2(ClampByte(rgb[1]))

\* app/kml.py lines 125, 217, 299: alpha=180
StyleAlpha == 180

\* rendering.py line 166: the colour the raster paints the code with
RasterColor ==
    /\ pc = "raster_color"
    /\ raster_rgb' = color_from_code(color_code)
    /\ pc' = "legend_color"
    /\ UNCHANGED <<color_code, legend_rgb, style_color>>
    /\ UNCHANGED <<bounds4326, max_px, size, shapes_clipped_4326, out_file, code_to_id,
                   class_raster, rgba, legend, error, kml_call, kml>>
    /\ UNCHANGED overlayVars
    /\ UNCHANGED <<attempts, serviceVars>>

\* rendering.py line 198: the colour of the code's legend entry
LegendColor ==
    /\ pc = "legend_color"
    /\ legend_rgb' = color_from_code(color_code)
    /\ pc' = "style_color"
    /\ UNCHANGED <<color_code, raster_rgb, style_color>>
    /\ UNCHANGED <<bounds4326, max_px, size, shapes_clipped_4326, out_file, code_to_id,
                   class_raster, rgba, legend, error, kml_call, kml>>
    /\ UNCHANGED overlayVars
    /\ UNCHANGED <<attempts, serviceVars>>

\* app/kml.py lines 124-125: the fill colour of the code's polygon style
StyleColor ==
    /\ pc = "style_color"
    /\ style_color' = _kml_color_abgr_with_alpha(color_from_code(color_code), StyleAlpha)
    /\ pc' = "done"
    /\ UNCHANGED <<color_code, raster_rgb, legend_rgb>>
    /\ UNCHANGED <<bounds4326, max_px, size, shapes_clipped_4326, out_file, code_to_id,
                   class_raster, rgba, legend, error, kml_call, kml>>
    /\ UNCHANGED overlayVars
    /\ UNCHANGED <<attempts, serviceVars>>

\* the overlay is not running
OverlayIdle ==
    /\ fetched_fc = <<>>
    /\ parcel_fc = <<>>
    /\ thematic_fc = <<>>
    /\ parcel_u = GeometryCollection
    /\ i = 1
    /\ out = <<>>
    /\ by_key = <<>>
    /\ all_clipped_data = <<>>
    /\ union_fails = {}
    /\ result = <<>>
    /\ attempts = <<>>

\* one code, coloured by the raster, by its legend and by the vector style
InitColor ==
    /\ pc = "raster_color"
    /\ color_code \in Md5Domain
    /\ bounds4326 = <<0, 0, 0, 0>>
    /\ max_px = 0
    /\ size = None
    /\ raster_rgb = None
    /\ legend_rgb = None
    /\ style_color = None
    /\ shapes_clipped_4326 = <<>>
    /\ out_file = None
    /\ code_to_id = <<>>
    /\ class_raster = None
    /\ rgba = None
    /\ legend = None
    /\ error = "none"
    /\ kml_call = None
    /\ kml = None
    /\ OverlayIdle
    /\ ServiceIdle

NextColor == RasterColor \/ LegendColor \/ StyleColor

SpecColor == InitColor /\ [][NextColor]_vars

---------------------------------------------------------------------------
(* Raster size (app/rendering.py, choose_raster_size) *)

MaxExtent == 6
MaxPx == 6

\* lines 113-114: the 1e-9 degrees below which an extent is raised; the
\* coordinates of the model count half-nanodegrees
MinExtent == 2

\* max(a, b)
max(a, b) == IF a >= b THEN a ELSE b

\* int(round(n / d)) for n >= 0 and d > 0: round() takes a half to the even
\* neighbour
round(n, d) ==
    LET q == n \div d
        r == n % d
    IN  IF 2 * r < d THEN q
        ELSE IF 2 * r > d THEN q + 1
        ELSE IF q % 2 = 0 THEN q ELSE q + 1

\* the shorter dimension without the floor of one pixel
choose_raster_size_unfloored(b, mp) ==
    LET width_deg == max(b[3] - b[1], MinExtent)
        height_deg == max(b[4] - b[2], MinExtent)
    IN  IF width_deg >= height_deg
        THEN <<mp, round(mp * height_deg, width_deg)>>
        ELSE <<round(mp * width_deg, height_deg), mp>>

\* the shorter dimension cut off instead of rounded
choose_raster_size_truncating(b, mp) ==
    LET width_deg == max(b[3] - b[1], MinExtent)
        height_deg == max(b[4] - b[2], MinExtent)
    IN  IF width_deg >= height_deg
        THEN <<mp, max(1, (mp * height_deg) \div width_deg)>>
        ELSE <<max(1, (mp * width_deg) \div height_deg), mp>>

\* lines 111-122; aspect = width_deg / height_deg, and height_deg is never 0
choose_raster_size(b, mp) ==
    LET west == b[1]
        south == b[2]
        east == b[3]
        north == b[4]
        width_deg == max(east - west, MinExtent)
        height_deg == max(north - south, MinExtent)
    IN  IF width_deg >= height_deg
        THEN <<mp, max(1, round(mp * height_deg, width_deg))>>
        ELSE <<max(1, round(mp * width_deg, height_deg)), mp>>

\* the call of line 137, on its own
ChooseRasterSize ==
    /\ pc = "size_call"
    /\ size' = choose_raster_size(bounds4326, max_px)
    /\ pc' = "done"
    /\ UNCHANGED <<bounds4326, max_px, color_code, raster_rgb, legend_rgb, style_color,
                   shapes_clipped_4326, out_file, code_to_id, class_raster, rgba,
                   legend, error, kml_call, kml>>
    /\ UNCHANGED overlayVars
    /\ UNCHANGED <<attempts, serviceVars>>

\* bounding boxes (west, south, east, north), a point and a line included
Boxes == {<<0, 0, dx, dy>> : dx \in 0..MaxExtent, dy \in 0..MaxExtent}

\* the values of max_px: small ones, and the 1000 of the documented example
PxSamples == (1..MaxPx) \cup {1000}

InitSize ==
    /\ pc = "size_call"
    /\ bounds4326 \in Boxes
    /\ max_px \in PxSamples
    /\ size = None
    /\ color_code = ""
    /\ raster_rgb = None
    /\ legend_rgb = None
    /\ style_color = None
    /\ shapes_clipped_4326 = <<>>
    /\ out_file = None
    /\ code_to_id = <<>>
    /\ class_raster = None
    /\ rgba = None
    /\ legend = None
    /\ error = "none"
    /\ kml_call = None
    /\ kml = None
    /\ OverlayIdle
    /\ ServiceIdle

NextSize == ChooseRasterSize

SpecSize == InitSize /\ [][NextSize]_vars

---------------------------------------------------------------------------
(* Raster compositor (app/rendering.py, make_geotiff_rgba) *)

MaxShapes == 3

\* line 132
EmptyOverlay == "ValueError: No intersecting land type polygons found for this parcel."

\* the places of the raster: the centre of every cell, and 0, a place of
\* the bounding box that no shape covers
Pixels == 0..NumCells

\* the pixels whose centre lies in the geometry (all_touched=False)
Covered(g) == g.cells

\* union.bounds: the cells lie in a row, each MinExtent wide and high
Bounds(g) ==
    LET lo == CHOOSE c \in g.cells : \A d \in g.cells : c <= d
        hi == CHOOSE c \in g.cells : \A d \in g.cells : c >= d
    IN  <<(lo - 1) * MinExtent, 0, hi * MinExtent, MinExtent>>

GeomsOf(shapes) == [k \in 1..Len(shapes) |-> shapes[k].geom]

\* lines 141-144
RECURSIVE CodesOrder(_, _)
CodesOrder(shapes, codes_order) ==
    IF shapes = <<>> THEN codes_order
    ELSE CodesOrder(Tail(shapes),
                    IF Head(shapes).code \in SeqRange(codes_order)
                    THEN codes_order
                    ELSE Append(codes_order, Head(shapes).code))

\* line 145: code_to_id[c] = i + 1 for the i-th code, counted from 0
IdOf(codes_order, c) == CHOOSE k \in 1..Len(codes_order) : codes_order[k] = c

\* a raster on which the shape painted first keeps its pixels
RECURSIVE BurnFirstWins(_, _, _)
BurnFirstWins(shapes, codes_order, raster) ==
    IF shapes = <<>> THEN raster
    ELSE BurnFirstWins(Tail(shapes), codes_order,
              [p \in Pixels |->
                  IF p \in Covered(Head(shapes).geom) /\ raster[p] = 0
                  THEN IdOf(codes_order, Head(shapes).code)
                  ELSE raster[p]])

\* rasterize burns the shapes in the order of the list
RECURSIVE Burn(_, _, _)
Burn(shapes, codes_order, raster) ==
    IF shapes = <<>> THEN raster
    ELSE Burn(Tail(shapes), codes_order,
              [p \in Pixels |->
                  IF p \in Covered(Head(shapes).geom)
                  THEN IdOf(codes_order, Head(shapes).code)
                  ELSE raster[p]])

\* lines 148-156, fill=0
rasterize(shapes, codes_order) == Burn(shapes, codes_order, [p \in Pixels |-> 0])

\* lines 159-170: the planes r, g, b, a, one (r, g, b, a) per pixel
RECURSIVE Planes(_, _, _, _)
Planes(codes_order, idx, cr, planes) ==
    IF idx > Len(codes_order) THEN planes
    ELSE Planes(codes_order, idx + 1, cr,
                [p \in Pixels |->
                    IF cr[p] = idx
                    THEN color_from_code(codes_order[idx]) \o <<255>>
                    ELSE planes[p]])

LegendEntry(c, n, col, a) == [code |-> c, name |-> n, color |-> col, area_ha |-> a]

LegendIndex(legend_map, c) ==
    IF \E k \in 1..Len(legend_map) : legend_map[k].code = c
    THEN CHOOSE k \in 1..Len(legend_map) : legend_map[k].code = c
    ELSE 0

\* lines 192-201
RECURSIVE LegendMap(_, _)
LegendMap(shapes, legend_map) ==
    IF shapes = <<>> THEN legend_map
    ELSE LET s == Head(shapes)
             known == LegendIndex(legend_map, s.code)
             lm == IF known = 0
                   THEN Append(legend_map,
                               LegendEntry(s.code, s.name, color_from_code(s.code), 0))
                   ELSE legend_map
             k == LegendIndex(lm, s.code)
         IN  LegendMap(Tail(shapes), [lm EXCEPT ![k].area_ha = @ + s.area])

\* the codes of the model in the order Python compares strings
SortedCodes == <<"A", "BH5", "DM7">>

\* a < b on strings
StrLess(a, b) ==
    (CHOOSE k \in 1..Len(SortedCodes) : SortedCodes[k] = a)
        < (CHOOSE k \in 1..Len(SortedCodes) : SortedCodes[k] = b)

\* line 204: (-d["area_ha"], d["code"]) < (-e["area_ha"], e["code"])
KeyLess(d, e) ==
    \/ d.area_ha > e.area_ha
    \/ d.area_ha = e.area_ha /\ StrLess(d.code, e.code)

\* e put behind the entries of the sorted s that it is not less than
InsertByKey(s, e) ==
    LET pos == Cardinality({k \in 1..Len(s) : ~KeyLess(e, s[k])})
    IN  SubSeq(s, 1, pos) \o <<e>> \o SubSeq(s, pos + 1, Len(s))

\* a legend left in the order of first appearance
unsorted(s) == s

\* sorted(..., key=...), which is stable
RECURSIVE sorted(_)
sorted(s) ==
    IF s = <<>> THEN <<>>
    ELSE InsertByKey(sorted(SubSeq(s, 1, Len(s) - 1)), s[Len(s)])

\* the output file opened before the shape list is looked at
RasterStartAfterOpen ==
    /\ pc = "raster_call"
    /\ out_file' = <<"opened">>
    /\ IF shapes_clipped_4326 = <<>>
       THEN /\ error' = EmptyOverlay
            /\ pc' = "raised"
            /\ UNCHANGED <<bounds4326, size, code_to_id>>
       ELSE /\ bounds4326' = Bounds(unary_union(GeomsOf(shapes_clipped_4326)))
            /\ size' = choose_raster_size(bounds4326', max_px)
            /\ code_to_id' = CodesOrder(shapes_clipped_4326, <<>>)
            /\ pc' = "rasterize"
            /\ UNCHANGED error
    /\ UNCHANGED <<max_px, color_code, raster_rgb, legend_rgb, style_color,
                   shapes_clipped_4326, class_raster, rgba, legend, kml_call, kml>>
    /\ UNCHANGED overlayVars
    /\ UNCHANGED <<attempts, serviceVars>>

\* lines 131-145
RasterStart ==
    /\ pc = "raster_call"
    /\ IF shapes_clipped_4326 = <<>>
       THEN /\ error' = EmptyOverlay
            /\ pc' = "raised"
            /\ UNCHANGED <<bounds4326, size, code_to_id>>
       ELSE /\ bounds4326' = Bounds(unary_union(GeomsOf(shapes_clipped_4326)))
            /\ size' = choose_raster_size(bounds4326', max_px)
            /\ code_to_id' = CodesOrder(shapes_clipped_4326, <<>>)
            /\ pc' = "rasterize"
            /\ UNCHANGED error
    /\ UNCHANGED <<max_px, color_code, raster_rgb, legend_rgb, style_color,
                   shapes_clipped_4326, out_file, class_raster, rgba, legend,
                   kml_call, kml>>
    /\ UNCHANGED overlayVars
    /\ UNCHANGED <<attempts, serviceVars>>

\* lines 148-156
Rasterize ==
    /\ pc = "rasterize"
    /\ class_raster' = rasterize(shapes_clipped_4326, code_to_id)
    /\ pc' = "build_rgba"
    /\ UNCHANGED <<bounds4326, max_px, size, color_code, raster_rgb, legend_rgb,
                   style_color, shapes_clipped_4326, out_file, code_to_id, rgba,
                   legend, error, kml_call, kml>>
    /\ UNCHANGED overlayVars
    /\ UNCHANGED <<attempts, serviceVars>>

\* lines 159-170
BuildRGBA ==
    /\ pc = "build_rgba"
    /\ rgba' = Planes(code_to_id, 1, class_raster, [p \in Pixels |-> <<0, 0, 0, 0>>])
    /\ pc' = "write"
    /\ UNCHANGED <<bounds4326, max_px, size, color_code, raster_rgb, legend_rgb,
                   style_color, shapes_clipped_4326, out_file, code_to_id,
                   class_raster, legend, error, kml_call, kml>>
    /\ UNCHANGED overlayVars
    /\ UNCHANGED <<attempts, serviceVars>>

\* lines 172-189
WriteFile ==
    /\ pc = "write"
    /\ out_file' = rgba
    /\ pc' = "legend"
    /\ UNCHANGED <<bounds4326, max_px, size, color_code, raster_rgb, legend_rgb,
                   style_color, shapes_clipped_4326, code_to_id, class_raster, rgba,
                   legend, error, kml_call, kml>>
    /\ UNCHANGED overlayVars
    /\ UNCHANGED <<attempts, serviceVars>>

\* lines 191-212
BuildLegend ==
    /\ pc = "legend"
    /\ legend' = sorted(LegendMap(shapes_clipped_4326, <<>>))
    /\ pc' = "done"
    /\ UNCHANGED <<bounds4326, max_px, size, color_code, raster_rgb, legend_rgb,
                   style_color, shapes_clipped_4326, out_file, code_to_id,
                   class_raster, rgba, error, kml_call, kml>>
    /\ UNCHANGED overlayVars
    /\ UNCHANGED <<attempts, serviceVars>>

RasterKeys == {<<"A", "A">>, <<"A", "N">>, <<"BH5", "BH5">>, <<"DM7", "DM7">>}

\* the whole grid, its first cell and its last cell
RasterRegions == {Cells, {1}, {NumCells}}

\* clipped shapes: non-empty geometries, areas as _area_ha gives them
RasterShapes ==
    {Item(Geom(r, "none"), k[1], k[2], SumOver(r, Area6933)) :
        r \in RasterRegions, k \in RasterKeys}

InitRaster ==
    /\ pc = "raster_call"
    /\ shapes_clipped_4326 \in SeqsUpTo(RasterShapes, MaxShapes)
    /\ max_px = MaxPx
    /\ bounds4326 = <<0, 0, 0, 0>>
    /\ size = None
    /\ color_code = ""
    /\ raster_rgb = None
    /\ legend_rgb = None
    /\ style_color = None
    /\ out_file = None
    /\ code_to_id = <<>>
    /\ class_raster = None
    /\ rgba = None
    /\ legend = None
    /\ error = "none"
    /\ kml_call = None
    /\ kml = None
    /\ OverlayIdle
    /\ ServiceIdle

NextRaster == RasterStart \/ Rasterize \/ BuildRGBA \/ WriteFile \/ BuildLegend

SpecRaster == InitRaster /\ [][NextRaster]_vars

---------------------------------------------------------------------------
(* Vector document assembler (app/kml.py) *)

MaxItems == 3

\* html.escape: of the strings of the model only "A&B" holds one of the
\* characters & < > " '
Escape(s) == IF s = "A&B" THEN "A&amp;B" ELSE s

\* a shapely geometry as the assembler looks at it: its type and the
\* number of its polygons
KGeom(kind, n) == [kind |-> kind, parts |-> n]

PolygonXml == [tag |-> "Polygon"]

\* lines 69-94: one <Polygon> per polygon; nothing for any other type
_geom_to_kml_polygons(geom) ==
    IF geom.kind = "Polygon" THEN <<PolygonXml>>
    ELSE IF geom.kind = "MultiPolygon" THEN [k \in 1..geom.parts |-> PolygonXml]
    ELSE <<>>

\* lines 20-30; None and "" are both falsy and are both ""
PointPlacemark(name, style_id, icon_href, scale) ==
    [name |-> name, style_id |-> style_id, icon_href |-> icon_href, scale |-> scale]

HasKey(styles, key) == \E k \in 1..Len(styles) : styles[k].key = key

\* point styles where a later point replaces the entry of its style id
RECURSIVE collect_point_styles_last(_, _)
collect_point_styles_last(points, styles) ==
    IF points = <<>> THEN styles
    ELSE LET point == Head(points)
             entry == [key |-> point.style_id, icon_href |-> point.icon_href,
                       scale |-> IF point.scale = 0 THEN 1 ELSE point.scale]
             at == CHOOSE k \in 1..Len(styles) : styles[k].key = point.style_id
         IN  collect_point_styles_last(Tail(points),
                 IF point.style_id = "" \/ point.icon_href = "" THEN styles
                 ELSE IF HasKey(styles, point.style_id)
                      THEN [styles EXCEPT ![at] = entry]
                      ELSE Append(styles, entry))

\* lines 96-104, and the same loop at 218-223 and 300-305, which goes on
\* with the dict of the groups before; the dict is kept in insertion order
RECURSIVE _collect_point_styles(_, _)
_collect_point_styles(points, styles) ==
    IF points = <<>> THEN styles
    ELSE LET point == Head(points)
         IN  _collect_point_styles(Tail(points),
                 IF point.style_id = "" \/ point.icon_href = "" THEN styles
                 ELSE IF HasKey(styles, point.style_id) THEN styles
                 ELSE Append(styles,
                             [key |-> point.style_id, icon_href |-> point.icon_href,
                              scale |-> IF point.scale = 0 THEN 1 ELSE point.scale]))

\* polygon styles with one entry per shape
RECURSIVE CollectStylesPerShape(_, _)
CollectStylesPerShape(clipped, styles) ==
    IF clipped = <<>> THEN styles
    ELSE LET c == Head(clipped).code
         IN  CollectStylesPerShape(Tail(clipped),
                 Append(styles, [key |-> c,
                                 color |-> _kml_color_abgr_with_alpha(color_from_code(c), StyleAlpha)]))

\* lines 120-125, 213-217, 295-299; color_fn is color_from_code at every
\* call of main.py
RECURSIVE CollectStyles(_, _)
CollectStyles(clipped, styles) ==
    IF clipped = <<>> THEN styles
    ELSE LET c == Head(clipped).code
         IN  CollectStyles(Tail(clipped),
                 IF HasKey(styles, c) THEN styles
                 ELSE Append(styles, [key |-> c,
                                      color |-> _kml_color_abgr_with_alpha(color_from_code(c), StyleAlpha)]))

\* lines 128-134
PolyStyleXml(st) ==
    [tag |-> "Style", kind |-> "poly", id |-> "s_" \o Escape(st.key),
     color |-> st.color, href |-> "", scale |-> 0]

\* lines 33-41; the scales of the model are whole numbers, which {:.2f}
\* keeps apart
_point_style_xml(st) ==
    [tag |-> "Style", kind |-> "icon", id |-> Escape(st.key),
     color |-> <<>>, href |-> Escape(st.icon_href),
     scale |-> IF st.scale = 0 THEN 1 ELSE max(1, st.scale)]

\* lines 127-137
StyleXml(styles, point_styles) ==
    [k \in 1..Len(styles) |-> PolyStyleXml(styles[k])]
        \o [k \in 1..Len(point_styles) |-> _point_style_xml(point_styles[k])]

\* lines 44-59
_point_placemark_xml(point) ==
    [tag |-> "Placemark", kind |-> "point",
     name |-> Escape(IF point.name = "" THEN "Point" ELSE point.name),
     styleUrl |-> IF point.style_id = "" THEN "" ELSE "#" \o Escape(point.style_id),
     geometry |-> [tag |-> "Point"]]

\* lines 139-157
RECURSIVE PolygonPlacemarks(_)
PolygonPlacemarks(clipped) ==
    IF clipped = <<>> THEN <<>>
    ELSE LET s == Head(clipped)
             polys == _geom_to_kml_polygons(s.geom)
             geom_xml == IF Len(polys) = 1 THEN polys[1]
                         ELSE [tag |-> "MultiGeometry", parts |-> polys]
         IN  (IF polys = <<>> THEN <<>>
              ELSE <<[tag |-> "Placemark", kind |-> "polygon",
                      name |-> Escape(IF s.name # "" THEN s.name
                                      ELSE IF s.code # "" THEN s.code ELSE "Unknown"),
                      styleUrl |-> "#s_" \o Escape(s.code),
                      geometry |-> geom_xml]>>)
             \o PolygonPlacemarks(Tail(clipped))

PointPlacemarks(points) == [k \in 1..Len(points) |-> _point_placemark_xml(points[k])]

Folder(name, children) == [tag |-> "Folder", name |-> Escape(name), children |-> children]

Document(name, children) == [name |-> Escape(name), children |-> children]

\* lines 107-180
build_kml(clipped, folder_name, point_placemarks, point_folder_name) ==
    LET folder_label == IF folder_name = "" THEN "Export" ELSE folder_name
        point_styles == _collect_point_styles(point_placemarks, <<>>)
        styles == CollectStyles(clipped, <<>>)
        polygon_folder == Folder(folder_label, PolygonPlacemarks(clipped))
        point_folder ==
            IF point_placemarks = <<>> THEN <<>>
            ELSE <<Folder(IF point_folder_name = "" THEN "Point Features"
                          ELSE point_folder_name,
                          PointPlacemarks(point_placemarks))>>
    IN  Document(folder_label,
                 StyleXml(styles, point_styles) \o <<polygon_folder>> \o point_folder)

\* a group as _unpack_group returns it (lines 182-193)
KmlGroup(clipped, folder_name, points) ==
    [clipped |-> clipped, folder_name |-> folder_name, points |-> points]

RECURSIVE GroupStyles(_, _)
GroupStyles(groups, styles) ==
    IF groups = <<>> THEN styles
    ELSE GroupStyles(Tail(groups), CollectStyles(Head(groups).clipped, styles))

RECURSIVE GroupPointStyles(_, _)
GroupPointStyles(groups, point_styles) ==
    IF groups = <<>> THEN point_styles
    ELSE GroupPointStyles(Tail(groups),
                          _collect_point_styles(Head(groups).points, point_styles))

\* lines 237-261 and 326-349
GroupFolder(g) ==
    Folder(IF g.folder_name = "" THEN "Layer" ELSE g.folder_name,
           PolygonPlacemarks(g.clipped) \o PointPlacemarks(g.points))

GroupFolders(groups) == [k \in 1..Len(groups) |-> GroupFolder(groups[k])]

\* lines 196-273
build_kml_folders(groups, doc_name) ==
    Document(IF doc_name = "" THEN "Export" ELSE doc_name,
             StyleXml(GroupStyles(groups, <<>>), GroupPointStyles(groups, <<>>))
                 \o GroupFolders(groups))

\* the groups of all parents, in order
RECURSIVE AllGroups(_)
AllGroups(nested_groups) ==
    IF nested_groups = <<>> THEN <<>>
    ELSE Head(nested_groups).subgroups \o AllGroups(Tail(nested_groups))

\* lines 275-363
build_kml_nested_folders(nested_groups, doc_name) ==
    LET groups == AllGroups(nested_groups)
        parent_folder(p) ==
            Folder(IF p.parent_name = "" THEN "Folder" ELSE p.parent_name,
                   GroupFolders(p.subgroups))
    IN  Document(IF doc_name = "" THEN "Export" ELSE doc_name,
                 StyleXml(GroupStyles(groups, <<>>), GroupPointStyles(groups, <<>>))
                     \o [k \in 1..Len(nested_groups) |-> parent_folder(nested_groups[k])])

BuildKml ==
    /\ pc = "kml_call"
    /\ kml_call.fn = "build_kml"
    /\ kml' = build_kml(kml_call.clipped, kml_call.folder_name,
                        kml_call.point_placemarks, kml_call.point_folder_name)
    /\ pc' = "done"
    /\ UNCHANGED <<bounds4326, max_px, size, color_code, raster_rgb, legend_rgb,
                   style_color, shapes_clipped_4326, out_file, code_to_id,
                   class_raster, rgba, legend, error, kml_call>>
    /\ UNCHANGED overlayVars
    /\ UNCHANGED <<attempts, serviceVars>>

BuildKmlFolders ==
    /\ pc = "kml_call"
    /\ kml_call.fn = "build_kml_folders"
    /\ kml' = build_kml_folders(kml_call.groups, kml_call.doc_name)
    /\ pc' = "done"
    /\ UNCHANGED <<bounds4326, max_px, size, color_code, raster_rgb, legend_rgb,
                   style_color, shapes_clipped_4326, out_file, code_to_id,
                   class_raster, rgba, legend, error, kml_call>>
    /\ UNCHANGED overlayVars
    /\ UNCHANGED <<attempts, serviceVars>>

BuildKmlNestedFolders ==
    /\ pc = "kml_call"
    /\ kml_call.fn = "build_kml_nested_folders"
    /\ kml' = build_kml_nested_folders(kml_call.nested_groups, kml_call.doc_name)
    /\ pc' = "done"
    /\ UNCHANGED <<bounds4326, max_px, size, color_code, raster_rgb, legend_rgb,
                   style_color, shapes_clipped_4326, out_file, code_to_id,
                   class_raster, rgba, legend, error, kml_call>>
    /\ UNCHANGED overlayVars
    /\ UNCHANGED <<attempts, serviceVars>>

\* clipped shapes as the overlay hands them on: a polygon, a collection of
\* two polygons, and what an intersection along a shared boundary leaves,
\* a geometry collection that is no MultiPolygon
KmlShapes ==
    {Item(KGeom("Polygon", 1), "A", "A", 1),
     Item(KGeom("MultiPolygon", 2), "A", "A", 1),
     Item(KGeom("GeometryCollection", 2), "A", "A", 1),
     Item(KGeom("Polygon", 1), "A&B", "A&B", 1)}

\* points as main.py lines 408-434 make them, and points of other callers:
\* two icons under one style id, one icon under two style ids, an icon
\* without a style id, a style id without an icon
KmlPoints ==
    {PointPlacemark("1", "bore_a", "icons/a.png", 1),
     PointPlacemark("2", "bore_a", "icons/b.png", 1),
     PointPlacemark("3", "bore_b", "icons/a.png", 1),
     PointPlacemark("4", "", "icons/a.png", 1),
     PointPlacemark("5", "bore_c", "", 1)}

\* sequences over S of length n
RECURSIVE SeqsOfLen(_, _)
SeqsOfLen(S, n) ==
    IF n = 0 THEN {<<>>}
    ELSE {Append(s, x) : s \in SeqsOfLen(S, n - 1), x \in S}

\* a shape list and a point list of n items together
ListsWith(n) ==
    UNION {SeqsOfLen(KmlShapes, a) \X SeqsOfLen(KmlPoints, n - a) : a \in 0..n}

ListsUpTo(n) == UNION {ListsWith(k) : k \in 0..n}

\* two pairs of lists of at most n items together
TwoListsUpTo(n) == UNION {ListsWith(a) \X ListsUpTo(n - a) : a \in 0..n}

\* the calls of main.py lines 446-463, 1289-1334, with at most n shapes and
\* points
KmlCalls(n) ==
    {[fn |-> "build_kml", clipped |-> l[1], folder_name |-> "QLD Land Types",
      point_placemarks |-> l[2], point_folder_name |-> "Bores"] : l \in ListsUpTo(n)}
    \cup {[fn |-> "build_kml_folders", doc_name |-> "QLD Export",
           groups |-> <<KmlGroup(t[1][1], "Land Types", t[1][2]),
                        KmlGroup(t[2][1], "Vegetation", t[2][2])>>] :
              t \in TwoListsUpTo(n)}
    \cup {[fn |-> "build_kml_nested_folders", doc_name |-> "",
           nested_groups |->
               <<[parent_name |-> "1RP1",
                  subgroups |-> <<KmlGroup(t[1][1], "Land Types", t[1][2])>>],
                 [parent_name |-> "Merged Land Types (All Properties)",
                  subgroups |-> <<KmlGroup(t[2][1], "", t[2][2])>>]>>] :
              t \in TwoListsUpTo(n)}
    \cup {[fn |-> "build_kml_nested_folders", doc_name |-> "Bulk",
           nested_groups |->
               <<[parent_name |-> "",
                  subgroups |-> <<KmlGroup(t[1][1], "Land Types", t[1][2]),
                                  KmlGroup(t[2][1], "Veg", t[2][2])>>]>>] :
              t \in TwoListsUpTo(n)}

InitKml ==
    /\ pc = "kml_call"
    /\ kml_call \in KmlCalls(MaxItems)
    /\ kml = None
    /\ bounds4326 = <<0, 0, 0, 0>>
    /\ max_px = 0
    /\ size = None
    /\ color_code = ""
    /\ raster_rgb = None
    /\ legend_rgb = None
    /\ style_color = None
    /\ shapes_clipped_4326 = <<>>
    /\ out_file = None
    /\ code_to_id = <<>>
    /\ class_raster = None
    /\ rgba = None
    /\ legend = None
    /\ error = "none"
    /\ OverlayIdle
    /\ ServiceIdle

NextKml == BuildKml \/ BuildKmlFolders \/ BuildKmlNestedFolders

SpecKml == InitKml /\ [][NextKml]_vars

---------------------------------------------------------------------------
(* _clip_to_parcel_union (app/main.py) *)

\* parcel_union.intersects(geom) is evaluated by the same library as the
\* intersection; whether it raises on a defective operand is left open
IntersectsMayRaise(a, g) == IntersectionRaises(a, g)

intersects(a, g) == a.cells \cap g.cells # {}

\* lines 186-208; predicate_raises tells whether the call of line 192 raised
_clip_to_parcel_union(g, pu, predicate_raises) ==
    LET clipped ==
            IF ~IntersectionRaises(pu, g) THEN intersection(pu, g)
            ELSE IF ~IntersectionRaises(pu, make_valid(g))
                 THEN intersection(pu, make_valid(g))
            ELSE IF ~IntersectionRaises(make_valid(pu), make_valid(g))
                 THEN intersection(make_valid(pu), make_valid(g))
            ELSE g
    IN  IF is_empty(g) THEN None
        ELSE IF pu = None THEN g
        ELSE IF is_empty(pu) THEN g
        ELSE IF ~predicate_raises /\ ~intersects(pu, g) THEN None
        ELSE IF is_empty(clipped) THEN None
        ELSE clipped

ClipToParcelUnion ==
    /\ pc = "clip_call"
    /\ \E predicate_raises \in
            (IF parcel_union # None /\ IntersectsMayRaise(parcel_union, clip_geom)
             THEN BOOLEAN ELSE {FALSE}) :
          clipped_geom' = _clip_to_parcel_union(clip_geom, parcel_union, predicate_raises)
    /\ pc' = "done"
    /\ UNCHANGED <<clip_geom, parcel_union>>
    /\ UNCHANGED <<overlayVars, renderVars, attempts, queryVars, exportVars>>

\* easement geometries as shp_shape returns them
ClipGeoms == {Geom(S, d) : S \in SUBSET Cells, d \in {"none", "invalid", "unrepairable"}}

\* parcel unions as to_shapely_union returns them, and no parcel union
ClipUnions == {None} \cup {Geom(S, "none") : S \in SUBSET Cells}

InitClip ==
    /\ pc = "clip_call"
    /\ clip_geom \in ClipGeoms
    /\ parcel_union \in ClipUnions
    /\ clipped_geom = None
    /\ QueryIdle
    /\ ExportIdle
    /\ OverlayIdle
    /\ RenderIdle

NextClip == ClipToParcelUnion

SpecClip == InitClip /\ [][NextClip]_vars

---------------------------------------------------------------------------
(* _arcgis_geojson_query (app/arcgis.py) *)

MaxMatching == 6
MaxRecords == 3

\* a GeoJSON FeatureCollection; the features of the layer that match the
\* query are numbered 1, 2, ... in the order the server keeps them
FeatureCollection(features) == [type |-> "FeatureCollection", features |-> features]

\* the server's answer to resultOffset = offset, resultRecordCount = count
Page(offset, count) ==
    LET last == IF offset + count <= matching THEN offset + count ELSE matching
    IN  FeatureCollection([k \in 1..(IF last > offset THEN last - offset ELSE 0) |-> offset + k])

\* _merge_fc that keeps the later page only
merge_fc_replace(accum, more) == more

\* lines 62-68; {} is None
_merge_fc(accum, more) ==
    IF accum = None THEN more
    ELSE [accum EXCEPT !.features = accum.features \o more.features]

\* one turn of the loop of lines 94-116, and lines 118-120 when it breaks
Query ==
    /\ pc = "query"
    /\ LET fc == Page(result_offset, result_record_count)
       IN  /\ requests' = Append(requests, result_offset)
           /\ out_fc' = _merge_fc(out_fc, fc)
           /\ IF paginate /\ Len(fc.features) >= result_record_count
              THEN /\ result_offset' = result_offset + result_record_count
                   /\ pc' = "query"
              ELSE /\ result_offset' = result_offset
                   /\ pc' = "done"
    /\ UNCHANGED <<matching, paginate, result_record_count>>
    /\ UNCHANGED <<overlayVars, renderVars, attempts, clipVars, exportVars>>

\* a call without resultOffset in params; resultRecordCount is MAX_RECORDS
\* or the caller's, one record at least
InitQuery ==
    /\ pc = "query"
    /\ matching \in 0..MaxMatching
    /\ paginate \in BOOLEAN
    /\ result_record_count \in 1..MaxRecords
    /\ result_offset = 0
    /\ out_fc = None
    /\ requests = <<>>
    /\ ClipIdle
    /\ ExportIdle
    /\ OverlayIdle
    /\ RenderIdle

NextQuery == Query

SpecQuery == InitQuery /\ [][NextQuery]_vars

\* the loop is the only thing the calling thread does
SpecQueryFair == SpecQuery /\ WF_vars(Query)

---------------------------------------------------------------------------
(* Point assets: _prepare_bore_placemarks (app/main.py) *)

\* a bore as fetch_bores_intersecting_envelope returns it: the type of its
\* geometry, the cells whose closure holds it (a bore on a shared boundary
\* lies in both parcels), and what _normalize_bore_properties reads from
\* its properties: the normalised bore number ("" when there is none) and
\* the icon key ("" when there is none)
Bore(kind, cells, number, icon_key) ==
    [geometry |-> [kind |-> kind, cells |-> cells], bore_number |-> number,
     icon_key |-> icon_key]

\* get_bore_icon_by_key and base64.b64decode, lines 412-419: the decoded
\* bytes of the icon (numbered; 0 when there is no definition, no image
\* data or no decodable data) and the content type of the definition
IconDefs ==
    {<<"EX,AB", [icon_bytes |-> 1, content_type |-> "image/png"]>>,
     <<"ex ab", [icon_bytes |-> 2, content_type |-> "image/png"]>>,
     <<"AU,SF", [icon_bytes |-> 3, content_type |-> "image/jpeg"]>>,
     <<"ZZ", [icon_bytes |-> 0, content_type |-> ""]>>}

IconKeys == {e[1] : e \in IconDefs}

get_bore_icon_by_key(icon_key) ==
    IF icon_key \in IconKeys THEN (CHOOSE e \in IconDefs : e[1] = icon_key)[2]
    ELSE [icon_bytes |-> 0, content_type |-> ""]

\* lines 298-300 on the keys of the model: lower case, every character
\* that is neither alphanumeric nor "_" replaced by "_"
_slugify_icon_key(icon_key) ==
    IF icon_key \in {"EX,AB", "ex ab"} THEN "ex_ab"
    ELSE IF icon_key = "AU,SF" THEN "au_sf"
    ELSE IF icon_key = "ZZ" THEN "zz"
    ELSE "icon"

\* lines 303-306
_icon_href_for_key(icon_key, content_type) ==
    "icons/" \o _slugify_icon_key(icon_key) \o "."
        \o (IF content_type \in {"image/jpeg", "image/jpg"} THEN "jpg" ELSE "png")

\* assets.setdefault(name, data) on a dict kept in insertion order
SetDefault(assets, name, data) ==
    IF \E k \in 1..Len(assets) : assets[k].name = name THEN assets
    ELSE Append(assets, [name |-> name, data |-> data])

\* the loop of lines 387-434
RECURSIVE PrepareBores(_, _, _, _, _)
PrepareBores(parcel_geom, bores, placemarks, assets, seen_numbers) ==
    IF bores = <<>> THEN [placemarks |-> placemarks, assets |-> assets]
    ELSE LET bore == Head(bores)
             icon_def == get_bore_icon_by_key(bore.icon_key)
             has_icon == bore.icon_key # "" /\ icon_def.icon_bytes # 0
             icon_href == _icon_href_for_key(bore.icon_key, icon_def.content_type)
             skipped == \/ bore.geometry.kind # "Point"
                        \/ bore.geometry.cells = {}
                        \/ bore.geometry.cells \cap parcel_geom.cells = {}
                        \/ bore.bore_number = ""
                        \/ bore.bore_number \in seen_numbers
         IN  IF skipped
             THEN PrepareBores(parcel_geom, Tail(bores), placemarks, assets, seen_numbers)
             ELSE PrepareBores(parcel_geom, Tail(bores),
                      Append(placemarks,
                             IF has_icon
                             THEN PointPlacemark(bore.bore_number,
                                                 "bore_" \o _slugify_icon_key(bore.icon_key),
                                                 icon_href, 1)
                             ELSE PointPlacemark(bore.bore_number, "", "", 1)),
                      IF has_icon THEN SetDefault(assets, icon_href, icon_def.icon_bytes)
                      ELSE assets,
                      seen_numbers \cup {bore.bore_number})

\* lines 379-436: [placemarks, assets]
_prepare_bore_placemarks(parcel_geom, bore_fc) ==
    PrepareBores(parcel_geom, bore_fc, <<>>, <<>>, {})

---------------------------------------------------------------------------
(* What the handlers of app/main.py do for one parcel *)

\* a lot/plan as normalize_lotplan returns it
Lotplan(l) == ToString(l) \o "RP1"

\* a geometry with its geom_type and the number of its polygons, as the
\* document builders look at it; neighbouring cells do not touch
Typed(g) ==
    [cells |-> g.cells, defect |-> g.defect,
     kind |-> IF Cardinality(g.cells) = 1 THEN "Polygon" ELSE "MultiPolygon",
     parts |-> Cardinality(g.cells)]

TypedShapes(clipped) ==
    [k \in 1..Len(clipped) |->
        Item(Typed(clipped[k].geom), clipped[k].code, clipped[k].name, clipped[k].area)]

\* a vegetation feature: the value of its field rvm_cat (VEG_CODE_FIELD and
\* VEG_NAME_FIELD), its other properties and its geometry
VegFeature(rvm_cat, g) == [rvm_cat |-> rvm_cat, props |-> NoProps, geometry |-> g]

\* main.py lines 1103-1109, 1257-1263 and 1424-1430
VegRelabel(f) ==
    LET code == Strip(Str(Or(Or(f.rvm_cat, Get(f.props, "code")), StrV(""))))
        name == Strip(Str(Or(Or(f.rvm_cat, Get(f.props, "name")), StrV(code))))
        category_name == IF name # "" THEN name ELSE IF code # "" THEN code ELSE "Unknown"
    IN  Feature([f.props EXCEPT
                    !["code"] = StrV(IF code # "" THEN code
                                     ELSE IF name # "" THEN name ELSE "UNK"),
                    !["name"] = StrV("Category " \o category_name)],
                f.geometry)

\* main.py lines 1495-1503, the relabelling of the ZIP bundle
VegRelabelZip(f) ==
    LET code == Or(f.rvm_cat, Or(f.rvm_cat, StrV("UNK")))
        name == Or(f.rvm_cat, code)
    IN  Feature([f.props EXCEPT !["code"] = StrV(Str(code)),
                                !["name"] = StrV("Category " \o Str(name))],
                f.geometry)

\* what the services answer for one parcel: the fetch that raises, if
\* any, and the feature collections the others return
LotWorld(fails, parcel_fc_, thematic_fc_, bore_fc, veg_fc) ==
    [fails |-> fails, parcel_fc |-> parcel_fc_, thematic_fc |-> thematic_fc_,
     bore_fc |-> bore_fc, veg_fc |-> veg_fc]

\* parcel_union, [raised, value]
LotUnion(w) == to_shapely_union(w.parcel_fc)

\* lt_clipped, [raised, value]
LotLandTypes(w) == prepare_clipped_shapes(w.parcel_fc, w.thematic_fc)

\* bore_points and bore_assets
LotBores(w) == _prepare_bore_placemarks(LotUnion(w).value, w.bore_fc)

\* veg_clipped, [raised, value]
LotVeg(w) ==
    prepare_clipped_shapes(w.parcel_fc, [k \in 1..Len(w.veg_fc) |-> VegRelabel(w.veg_fc[k])])

\* the first statement of the parcel's processing that raises: the fetch
\* and union of the parcel, the land types, the bores, the vegetation, or
\* none; pu, lt and veg are [raised, value]
RaisesAtOf(w, pu, lt, veg) ==
    IF w.fails = "parcel" \/ pu.raised THEN "parcel"
    ELSE IF w.fails = "landtypes" \/ lt.raised THEN "landtypes"
    ELSE IF w.fails = "bores" THEN "bores"
    ELSE IF w.fails = "veg" \/ veg.raised THEN "veg"
    ELSE "none"

RaisesAt(w) == RaisesAtOf(w, LotUnion(w), LotLandTypes(w), LotVeg(w))

\* the locals of the handler after the steps of one parcel: where it
\* raised, lt_clipped, veg_clipped, bore_points and bore_assets
LocalsOf(w, pu, lt, veg) ==
    [at |-> RaisesAtOf(w, pu, lt, veg), lt_clipped |-> lt.value,
     veg_clipped |-> veg.value,
     bores |-> _prepare_bore_placemarks(pu.value, w.bore_fc)]

Locals(w) == LocalsOf(w, LotUnion(w), LotLandTypes(w), LotVeg(w))

\* kml.py lines 365-373 and main.py lines 466-474; data is None is NoData
NoData == 0 - 1

write_kmz_unfiltered(kml_text, assets) ==
    <<[name |-> "doc.kml", data |-> kml_text]>> \o assets

write_kmz(kml_text, assets) ==
    <<[name |-> "doc.kml", data |-> kml_text]>>
        \o SelectSeq(assets, LAMBDA a : a.name # "" /\ a.data # NoData)

---------------------------------------------------------------------------
(* _create_bulk_kmz (app/main.py) *)

\* lines 90-130 of geometry.py as one call
merge_clipped_shapes_across_lots(all_clipped) ==
    IF all_clipped = <<>> THEN <<>> ELSE MergeAll(CollectFrom(Flatten(all_clipped), <<>>))

\* lines 1245-1248
RECURSIVE MergeAssets(_, _)
MergeAssets(assets, more) ==
    IF more = <<>> THEN assets
    ELSE MergeAssets(SetDefault(assets, Head(more).name, Head(more).data), Tail(more))

\* lines 1249-1252: [seen, points]
RECURSIVE MergePoints(_, _, _)
MergePoints(seen, points, more) ==
    IF more = <<>> THEN [seen |-> seen, points |-> points]
    ELSE LET point == Head(more)
         IN  IF point.name # "" /\ point.name \notin seen
             THEN MergePoints(seen \cup {point.name}, Append(points, point), Tail(more))
             ELSE MergePoints(seen, points, Tail(more))

\* lines 1286-1293
Subfolders(lt_clipped, veg_clipped, bore_points) ==
    (IF lt_clipped # <<>> THEN <<KmlGroup(TypedShapes(lt_clipped), "Land Types", <<>>)>> ELSE <<>>)
    \o (IF veg_clipped # <<>> THEN <<KmlGroup(TypedShapes(veg_clipped), "Veg", <<>>)>> ELSE <<>>)
    \o (IF bore_points # <<>> THEN <<KmlGroup(<<>>, "Groundwater Bores", bore_points)>> ELSE <<>>)

NestedGroup(parent_name, subgroups) == [parent_name |-> parent_name, subgroups |-> subgroups]

\* one turn of the loop of lines 1232-1300: the bores are merged into
\* kmz_assets and all_bore_points before the vegetation is fetched
BulkLot ==
    /\ pc = "bulk_loop"
    /\ lp <= Len(world)
    /\ \E l \in {Locals(world[lp])} :
          /\ \E merged \in {MergePoints(seen_all_bores, all_bore_points,
                                        l.bores.placemarks)} :
                IF l.at \in {"veg", "none"}
                THEN /\ kmz_assets' = MergeAssets(kmz_assets, l.bores.assets)
                     /\ seen_all_bores' = merged.seen
                     /\ all_bore_points' = merged.points
                ELSE UNCHANGED <<kmz_assets, seen_all_bores, all_bore_points>>
          /\ \E subfolders \in {Subfolders(l.lt_clipped, l.veg_clipped,
                                            l.bores.placemarks)} :
                IF l.at = "none"
                THEN /\ all_lt_clipped' = IF l.lt_clipped # <<>>
                                          THEN Append(all_lt_clipped, l.lt_clipped)
                                          ELSE all_lt_clipped
                     /\ all_veg_clipped' = IF l.veg_clipped # <<>>
                                           THEN Append(all_veg_clipped, l.veg_clipped)
                                           ELSE all_veg_clipped
                     /\ bulk_groups' = IF subfolders # <<>>
                                       THEN Append(bulk_groups,
                                                   NestedGroup(Lotplan(lp), subfolders))
                                       ELSE bulk_groups
                ELSE UNCHANGED <<all_lt_clipped, all_veg_clipped, bulk_groups>>
    /\ lp' = lp + 1
    /\ UNCHANGED <<pc, world, payload, manifest_rows, zf, archive, response>>
    /\ UNCHANGED <<overlayVars, renderVars, attempts, clipVars, queryVars>>
    /\ UNCHANGED content

\* lines 1305-1324 with merged_lt and merged_veg
MergedFoldersOf(merged_lt, merged_veg, bore_points) ==
    (IF merged_lt # <<>>
     THEN <<NestedGroup("Merged Land Types (All Properties)",
                        <<KmlGroup(TypedShapes(merged_lt), "Land Types", <<>>)>>)>>
     ELSE <<>>)
    \o (IF merged_veg # <<>>
        THEN <<NestedGroup("Merged Vegetation (All Properties)",
                           <<KmlGroup(TypedShapes(merged_veg), "Vegetation", <<>>)>>)>>
        ELSE <<>>)
    \o (IF bore_points # <<>>
        THEN <<NestedGroup("Groundwater Bores (All Properties)",
                           <<KmlGroup(<<>>, "Groundwater Bores", bore_points)>>)>>
        ELSE <<>>)

\* lines 1305-1324
MergedFolders ==
    MergedFoldersOf(merge_clipped_shapes_across_lots(all_lt_clipped),
                    merge_clipped_shapes_across_lots(all_veg_clipped), all_bore_points)

\* lines 1302-1349
BulkFinish ==
    /\ pc = "bulk_loop"
    /\ lp > Len(world)
    /\ IF bulk_groups = <<>>
       THEN /\ response' = 404
            /\ UNCHANGED <<kml_call, kml, archive>>
       ELSE \E call \in {[fn |-> "build_kml_nested_folders",
                           doc_name |-> "QLD Bulk Export - " \o ToString(Len(world))
                                            \o " lots",
                           nested_groups |-> MergedFolders \o bulk_groups]} :
               \E doc \in {build_kml_nested_folders(call.nested_groups, call.doc_name)} :
                   /\ kml_call' = call
                   /\ kml' = doc
                   /\ archive' = write_kmz(doc, kmz_assets)
                   /\ response' = 200
    /\ pc' = "done"
    /\ UNCHANGED <<world, payload, lp, bulk_groups, all_lt_clipped, all_veg_clipped,
                   all_bore_points, kmz_assets, seen_all_bores, manifest_rows, zf>>
    /\ UNCHANGED <<overlayVars, rasterVars, attempts, clipVars, queryVars>>
    /\ UNCHANGED content

---------------------------------------------------------------------------
(* export_any (app/main.py): the ZIP bundle of lines 1446-1551 *)

\* lines 439-463; build_kml without points is build_kml with no points
\* and no name for their folder
_render_parcel_kml(lotplan, lt_clipped, veg_clipped, bore_points) ==
    IF veg_clipped # <<>>
    THEN build_kml_folders(
             <<KmlGroup(TypedShapes(lt_clipped), "Land Types - " \o lotplan, <<>>),
               KmlGroup(TypedShapes(veg_clipped), "Vegetation - " \o lotplan, <<>>)>>
             \o (IF bore_points # <<>>
                 THEN <<KmlGroup(<<>>, "Groundwater Bores", bore_points)>> ELSE <<>>),
             "QLD Export - " \o lotplan)
    ELSE build_kml(TypedShapes(lt_clipped), "QLD Land Types - " \o lotplan, bore_points,
                   IF bore_points # <<>> THEN "Groundwater Bores" ELSE "")

\* the columns of manifest.csv, lines 1530-1537, and the keys of a row
FieldNames ==
    {"lotplan", "status_tiff", "file_tiff", "lt_error", "status_kmz", "file_kmz",
     "status_veg_tiff", "file_veg_tiff", "veg_message", "status_veg_kmz", "file_veg_kmz",
     "veg_error", "message"}

RowKeys == FieldNames \cup {"status"}

\* line 1452; a key the row does not hold is ""
NewRow(lotplan) == [k \in RowKeys |-> IF k = "lotplan" THEN lotplan ELSE ""]

\* row.update(...) with the keys and values of more
Update(row, more) == [k \in RowKeys |-> IF k \in DOMAIN more THEN more[k] ELSE row[k]]

\* vclipped, [raised, value]
LotVegZip(w) ==
    prepare_clipped_shapes(w.parcel_fc,
                           [k \in 1..Len(w.veg_fc) |-> VegRelabelZip(w.veg_fc[k])])

Entry(name, data) == [name |-> name, data |-> data]

\* the file make_geotiff_rgba writes for the shapes
Tiff(clipped) == [driver |-> "GTiff", shapes |-> clipped]

\* lines 1461-1489 with clipped, [raised, value], and the bores: [row, files]
ZipLandTypesOf(w, lotplan, row, clipped, bores, tiff, kmz) ==
    IF w.fails \in {"landtypes", "bores"} \/ clipped.raised
    THEN [row |-> Update(row, [lt_error |-> "raised"]), files |-> <<>>]
    ELSE IF clipped.value = <<>>
    THEN [row |-> Update(row, [status_tiff |-> "skip", status_kmz |-> "skip",
                               message |-> "No Land Types intersect."]),
          files |-> <<>>]
    ELSE [row |-> Update(Update(row,
                      IF tiff THEN [status_tiff |-> "ok",
                                    file_tiff |-> lotplan \o "_landtypes.tif"]
                      ELSE <<>>),
                      IF kmz THEN [status_kmz |-> "ok",
                                   file_kmz |-> lotplan \o "_landtypes.kmz"]
                      ELSE <<>>),
          files |-> (IF tiff THEN <<Entry(lotplan \o "_landtypes.tif", Tiff(clipped.value))>>
                     ELSE <<>>)
                    \o (IF kmz
                        THEN <<Entry(lotplan \o "_landtypes.kmz",
                                     write_kmz(_render_parcel_kml(lotplan, clipped.value, <<>>,
                                                                  bores.placemarks),
                                               bores.assets))>>
                        ELSE <<>>)]

\* lines 1461-1489: [row, files]
ZipLandTypes(w, lotplan, row) ==
    ZipLandTypesOf(w, lotplan, row, LotLandTypes(w), LotBores(w),
                   payload.format \in {"tiff", "both"}, payload.format \in {"kmz", "both"})

\* lines 1491-1524 with vclipped, [raised, value]: [row, files]
ZipVegetationOf(w, lotplan, row, vclipped) ==
    IF w.fails = "veg" \/ vclipped.raised
    THEN [row |-> Update(row, [veg_error |-> "raised"]), files |-> <<>>]
    ELSE IF vclipped.value = <<>>
    THEN [row |-> Update(row, [status_veg_tiff |-> "skip", status_veg_kmz |-> "skip",
                               veg_message |-> "No vegetation polygons intersect."]),
          files |-> <<>>]
    ELSE [row |-> Update(Update(row,
                      IF payload.include_veg_tiff
                      THEN [status_veg_tiff |-> "ok",
                            file_veg_tiff |-> lotplan \o "_vegetation.tif"]
                      ELSE <<>>),
                      IF payload.include_veg_kmz
                      THEN [status_veg_kmz |-> "ok",
                            file_veg_kmz |-> lotplan \o "_vegetation.kmz"]
                      ELSE <<>>),
          files |-> (IF payload.include_veg_tiff
                     THEN <<Entry(lotplan \o "_vegetation.tif", Tiff(vclipped.value))>>
                     ELSE <<>>)
                    \o (IF payload.include_veg_kmz
                        THEN <<Entry(lotplan \o "_vegetation.kmz",
                                     write_kmz(build_kml(TypedShapes(vclipped.value),
                                                         "Vegetation - " \o lotplan, <<>>, ""),
                                               <<>>))>>
                        ELSE <<>>)]

\* lines 1491-1524: [row, files]
ZipVegetation(w, lotplan, row) == ZipVegetationOf(w, lotplan, row, LotVegZip(w))

\* a turn of the loop that leaves a parcel that cannot be fetched out of
\* the manifest
ZipLotWithoutErrorRow ==
    /\ pc = "zip_loop"
    /\ lp <= Len(world)
    /\ \E lt \in {ZipLandTypes(world[lp], Lotplan(lp), NewRow(Lotplan(lp)))} :
          \E veg \in {ZipVegetation(world[lp], Lotplan(lp), lt.row)} :
              IF world[lp].fails = "parcel" \/ LotUnion(world[lp]).raised
              THEN /\ manifest_rows' = manifest_rows
                   /\ zf' = zf
              ELSE /\ manifest_rows' = Append(manifest_rows, veg.row)
                   /\ zf' = zf \o lt.files \o veg.files
    /\ lp' = lp + 1
    /\ UNCHANGED <<pc, world, payload, bulk_groups, all_lt_clipped, all_veg_clipped,
                   all_bore_points, kmz_assets, seen_all_bores, archive, response>>
    /\ UNCHANGED <<overlayVars, renderVars, attempts, clipVars, queryVars>>
    /\ UNCHANGED content

\* one turn of the loop of lines 1451-1526
ZipLot ==
    /\ pc = "zip_loop"
    /\ lp <= Len(world)
    /\ \E lt \in {ZipLandTypes(world[lp], Lotplan(lp), NewRow(Lotplan(lp)))} :
          \E veg \in {ZipVegetation(world[lp], Lotplan(lp), lt.row)} :
              IF world[lp].fails = "parcel" \/ LotUnion(world[lp]).raised
              THEN /\ manifest_rows' =
                          Append(manifest_rows,
                                 Update(NewRow(Lotplan(lp)),
                                        [status |-> "error:parcel", message |-> "raised"]))
                   /\ zf' = zf
              ELSE /\ manifest_rows' = Append(manifest_rows, veg.row)
                   /\ zf' = zf \o lt.files \o veg.files
    /\ lp' = lp + 1
    /\ UNCHANGED <<pc, world, payload, bulk_groups, all_lt_clipped, all_veg_clipped,
                   all_bore_points, kmz_assets, seen_all_bores, archive, response>>
    /\ UNCHANGED <<overlayVars, renderVars, attempts, clipVars, queryVars>>
    /\ UNCHANGED content

\* writer.writerow, line 1540: the columns of the row
CsvRow(row) == [k \in FieldNames |-> row[k]]

\* lines 1528-1551
ZipFinish ==
    /\ pc = "zip_loop"
    /\ lp > Len(world)
    /\ zf' = Append(zf, Entry("manifest.csv",
                              [k \in 1..Len(manifest_rows) |-> CsvRow(manifest_rows[k])]))
    /\ response' = 200
    /\ pc' = "done"
    /\ UNCHANGED <<world, payload, lp, bulk_groups, all_lt_clipped, all_veg_clipped,
                   all_bore_points, kmz_assets, seen_all_bores, manifest_rows, archive>>
    /\ UNCHANGED <<overlayVars, renderVars, attempts, clipVars, queryVars>>
    /\ UNCHANGED content

---------------------------------------------------------------------------
(* The parcels of a request *)

\* the l-th parcel, and a land-type and a vegetation polygon that reach
\* over all parcels
LotParcel(l) == <<ParcelFeature(Geom(LotRegion(l), "none"))>>

LandTypeA(defect) == <<Feature(SomeProps, Geom(Cells, defect))>>

VegB == <<VegFeature(StrV("B"), Geom(Cells, "none"))>>

\* bores of the l-th parcel: its own, one on the boundary it shares with
\* its neighbours, one without icon image, one that only the envelope of
\* the parcel holds, and a feature that is no point
OwnBore(l) == Bore("Point", LotRegion(l), "RN" \o ToString(l), "EX,AB")
SharedBore == Bore("Point", Cells, "RN0", "AU,SF")
PlainBore == Bore("Point", Cells, "RN8", "ZZ")
OutsideBore(l) == Bore("Point", Cells \ LotRegion(l), "RN9", "ex ab")
NoPoint(l) == Bore("LineString", LotRegion(l), "RN7", "")

BoreList(l, n) ==
    IF n = 0 THEN <<>>
    ELSE IF n = 1 THEN <<OwnBore(l)>>
    ELSE IF n = 2 THEN <<SharedBore, OwnBore(l), OwnBore(l), PlainBore>>
    ELSE <<OutsideBore(l), NoPoint(l), SharedBore>>

\* what happens to a parcel, whichever parcel it is: the fetch that
\* raises, whether the parcel is found and valid, and what the land type,
\* bore and vegetation layers hold around it
Case(fails, parcel, landtypes, bores, veg) ==
    [fails |-> fails, parcel |-> parcel, landtypes |-> landtypes, bores |-> bores,
     veg |-> veg]

Cases ==
    {Case("none", "found", t, b, FALSE) : t \in {"", "A"}, b \in 0..3}
    \cup {Case("none", "found", t, b, TRUE) : t \in {"", "A"}, b \in {0, 2}}
    \cup {Case("none", "found", "all_proj_fail", 1, FALSE),
          Case("none", "missing", "A", 1, FALSE),
          Case("none", "unrepairable", "A", 1, FALSE),
          Case("parcel", "missing", "", 0, FALSE),
          Case("landtypes", "found", "", 1, FALSE),
          Case("bores", "found", "A", 0, FALSE)}
    \cup {Case("veg", "found", t, b, FALSE) : t \in {"", "A"}, b \in 1..2}

\* the answers of the services for the l-th parcel
LotWorldOf(l, c) ==
    LotWorld(c.fails,
             IF c.parcel = "missing" THEN <<>>
             ELSE IF c.parcel = "found" THEN LotParcel(l)
             ELSE <<ParcelFeature(Geom(LotRegion(l), "unrepairable"))>>,
             IF c.landtypes = "" THEN <<>>
             ELSE IF c.landtypes = "A" THEN LandTypeA("none")
             ELSE LandTypeA("all_proj_fail"),
             BoreList(l, c.bores),
             IF c.veg THEN VegB ELSE <<>>)

\* the worlds of n parcels
Worlds(n) == {[l \in 1..n |-> LotWorldOf(l, cs[l])] : cs \in [1..n -> Cases]}

\* the requests of export_any with several lot/plans: format kmz, which
\* _create_bulk_kmz answers, and the ZIP bundles of format tiff and both
Payloads ==
    {[format |-> "kmz", include_veg_tiff |-> FALSE, include_veg_kmz |-> FALSE],
     [format |-> "tiff", include_veg_tiff |-> FALSE, include_veg_kmz |-> FALSE],
     [format |-> "both", include_veg_tiff |-> TRUE, include_veg_kmz |-> TRUE]}

\* lines 1350-1381 are done: the items are distinct lot/plans
InitBulk ==
    /\ world \in Worlds(MaxLots)
    /\ payload \in Payloads
    /\ pc = IF payload.format = "kmz" THEN "bulk_loop" ELSE "zip_loop"
    /\ lp = 1
    /\ bulk_groups = <<>>
    /\ all_lt_clipped = <<>>
    /\ all_veg_clipped = <<>>
    /\ all_bore_points = <<>>
    /\ kmz_assets = <<>>
    /\ seen_all_bores = {}
    /\ manifest_rows = <<>>
    /\ zf = <<>>
    /\ archive = None
    /\ response = 0
    /\ content = None
    /\ ClipIdle
    /\ QueryIdle
    /\ OverlayIdle
    /\ RenderIdle

NextBulk == BulkLot \/ BulkFinish \/ ZipLot \/ ZipFinish

SpecBulk == InitBulk /\ [][NextBulk]_vars

---------------------------------------------------------------------------
(* export_kmz (app/main.py), and write_kmz called with any assets *)

\* lines 1077-1138, and the same steps at lines 1399-1440 of export_any;
\* an exception that leaves the handler is answered with status 500
ExportKmz ==
    /\ pc = "export_kmz"
    /\ \E l \in {Locals(world[1])} :
          IF l.at \in {"parcel", "landtypes"}
          THEN /\ response' = 500
               /\ UNCHANGED <<kml_call, kml, archive>>
          ELSE IF l.lt_clipped = <<>>
          THEN /\ response' = 404
               /\ UNCHANGED <<kml_call, kml, archive>>
          ELSE IF l.at \in {"bores", "veg"}
          THEN /\ response' = 500
               /\ UNCHANGED <<kml_call, kml, archive>>
          ELSE \E doc \in {_render_parcel_kml(Lotplan(lp), l.lt_clipped, l.veg_clipped,
                                               l.bores.placemarks)} :
                  /\ response' = 200
                  /\ kml_call' = [fn |-> "_render_parcel_kml", lotplan |-> Lotplan(lp)]
                  /\ kml' = doc
                  /\ archive' = write_kmz(doc, l.bores.assets)
    /\ pc' = "done"
    /\ UNCHANGED <<world, payload, lp, bulk_groups, all_lt_clipped, all_veg_clipped,
                   all_bore_points, kmz_assets, seen_all_bores, manifest_rows, zf>>
    /\ UNCHANGED <<overlayVars, rasterVars, attempts, clipVars, queryVars>>
    /\ UNCHANGED content

\* kml.py lines 365-373 with the text in kml and the assets in kmz_assets
WriteKmz ==
    /\ pc = "write_kmz"
    /\ archive' = write_kmz(kml, kmz_assets)
    /\ pc' = "done"
    /\ UNCHANGED <<world, payload, lp, bulk_groups, all_lt_clipped, all_veg_clipped,
                   all_bore_points, kmz_assets, seen_all_bores, manifest_rows, zf,
                   response>>
    /\ UNCHANGED <<overlayVars, renderVars, attempts, clipVars, queryVars>>
    /\ UNCHANGED content

MaxAssets == 2

\* assets a caller may hand to write_kmz: without name, without data, and
\* with both
AssetSamples ==
    {Entry("", 1), Entry("icons/a.png", NoData), Entry("icons/b.png", 2),
     Entry("icons/c.png", 3)}

\* a mapping has every name once
AssetMaps(n) ==
    {s \in UNION {SeqsOfLen(AssetSamples, k) : k \in 0..n} :
        \A a, b \in 1..Len(s) : s[a].name = s[b].name => a = b}

\* a request for one of the parcels, or a call of write_kmz
InitKmz ==
    /\ pc \in {"export_kmz", "write_kmz"}
    /\ IF pc = "export_kmz"
       THEN /\ lp \in 1..MaxLots
            /\ world \in {<<LotWorldOf(lp, c)>> : c \in Cases}
            /\ kmz_assets = <<>>
            /\ kml = None
       ELSE /\ lp = 1
            /\ world = <<>>
            /\ kmz_assets \in AssetMaps(MaxAssets)
            /\ kml = build_kml(<<>>, "", <<>>, "")
    /\ payload = [format |-> "kmz", include_veg_tiff |-> FALSE, include_veg_kmz |-> FALSE]
    /\ bulk_groups = <<>>
    /\ all_lt_clipped = <<>>
    /\ all_veg_clipped = <<>>
    /\ all_bore_points = <<>>
    /\ seen_all_bores = {}
    /\ manifest_rows = <<>>
    /\ zf = <<>>
    /\ archive = None
    /\ response = 0
    /\ content = None
    /\ ClipIdle
    /\ QueryIdle
    /\ OverlayIdle
    /\ RasterIdle
    /\ kml_call = None

NextKmz == ExportKmz \/ WriteKmz

SpecKmz == InitKmz /\ [][NextKmz]_vars

---------------------------------------------------------------------------
(* vector_geojson (app/main.py) *)

\* an easement as fetch_easements_intersecting_envelope returns it
Easement(g) == [properties |-> <<>>, geometry |-> g]

\* the easements around the l-th parcel: none, one inside, one that reaches
\* over the boundary and is invalid, one that cannot be repaired
EasementList(l, n) ==
    IF n = 0 THEN <<>>
    ELSE IF n = 1 THEN <<Easement(Geom(LotRegion(l), "none"))>>
    ELSE IF n = 2 THEN <<Easement(Geom(Cells, "invalid")), Easement(Geom({}, "none"))>>
    ELSE <<Easement(Geom(Cells, "unrepairable"))>>

VectorCase(fails, parcel, landtypes, bores, easements) ==
    [fails |-> fails, parcel |-> parcel, landtypes |-> landtypes, bores |-> bores,
     easements |-> easements]

VectorCases ==
    {VectorCase("none", p, t, b, e) :
        p \in {"found", "missing", "unrepairable"}, t \in {"", "A", "all_proj_fail"},
        b \in 0..3, e \in 0..3}
    \cup {VectorCase(f, "found", "A", 1, 1) : f \in {"parcel", "landtypes", "bores", "easements"}}

\* the answers of the services for the l-th parcel
VectorWorldOf(l, c) ==
    [fails |-> c.fails,
     parcel_fc |-> IF c.parcel = "missing" THEN <<>>
                   ELSE IF c.parcel = "found" THEN LotParcel(l)
                   ELSE <<ParcelFeature(Geom(LotRegion(l), "unrepairable"))>>,
     thematic_fc |-> IF c.landtypes = "" THEN <<>>
                     ELSE IF c.landtypes = "A" THEN LandTypeA("none")
                     ELSE LandTypeA("all_proj_fail"),
     bore_fc |-> BoreList(l, c.bores),
     easement_fc |-> EasementList(l, c.easements)]

\* lines 835-856
LandTypeFeatures(clipped, lotplan) ==
    [k \in 1..Len(clipped) |->
        [geometry |-> clipped[k].geom,
         properties |-> [code |-> clipped[k].code, name |-> clipped[k].name,
                         area_ha |-> clipped[k].area,
                         color_hex |-> color_from_code(clipped[k].code),
                         lotplan |-> lotplan]]]

\* lines 858-881
RECURSIVE BoreFeatures(_, _, _, _)
BoreFeatures(bores, lotplan, bore_features, seen_bores) ==
    IF bores = <<>> THEN bore_features
    ELSE LET bore == Head(bores)
         IN  IF \/ bore.geometry.cells = {}
                \/ bore.bore_number = ""
                \/ bore.bore_number \in seen_bores
             THEN BoreFeatures(Tail(bores), lotplan, bore_features, seen_bores)
             ELSE BoreFeatures(Tail(bores), lotplan,
                      Append(bore_features,
                             [geometry |-> Geom(bore.geometry.cells, "none"),
                              properties |-> [bore_number |-> bore.bore_number,
                                              icon_key |-> bore.icon_key,
                                              lotplan |-> lotplan]]),
                      seen_bores \cup {bore.bore_number})

\* lines 883-901; predicate_raises[k] tells whether intersects raised for
\* the k-th easement
RECURSIVE EasementFeatures(_, _, _, _, _)
EasementFeatures(easements, k, pu, lotplan, predicate_raises) ==
    IF k > Len(easements) THEN <<>>
    ELSE LET g == easements[k].geometry
             clipped == _clip_to_parcel_union(g, pu, predicate_raises[k])
         IN  (IF ShapeRaises(g) \/ is_empty(g) THEN <<>>
              ELSE IF clipped = None THEN <<>>
              ELSE <<[geometry |-> clipped, properties |-> [lotplan |-> lotplan]]>>)
             \o EasementFeatures(easements, k + 1, pu, lotplan, predicate_raises)

\* lines 910-922: [status_code, content]; an exception that leaves the
\* handler is answered with status 500 and no payload
Answer(raised, status_code, body) ==
    IF raised THEN [status_code |-> 500, content |-> None]
    ELSE [status_code |-> status_code,
          content |-> IF status_code # 200
                      THEN [error |-> "No Land Types intersect this parcel."] @@ body
                      ELSE body]

\* lines 903-922 with the three feature lists.  The member bounds4326 is
\* the bounding box of bounds_geom, which cell sets do not have; of lines
\* 903-909 the model keeps whether the union raises
AnswerWith(w, lotplan, clipped, raised, features, bore_features, easement_features) ==
    Answer(raised
              \/ to_shapely_union(w.parcel_fc \o features \o bore_features
                                      \o easement_features).raised,
           IF features # <<>> THEN 200 ELSE 404,
           [lotplan |-> lotplan,
            parcel |-> FeatureCollection(w.parcel_fc),
            landtypes |-> FeatureCollection(features),
            bores |-> FeatureCollection(bore_features),
            easements |-> FeatureCollection(easement_features),
            legend |-> sorted(LegendMap(clipped, <<>>))])

\* lines 827-922 with parcel_union and clipped, each [raised, value]
AnswerFor(w, lotplan, predicate_raises, pu, clipped) ==
    AnswerWith(w, lotplan, clipped.value,
               w.fails # "none" \/ pu.raised \/ clipped.raised,
               LandTypeFeatures(clipped.value, lotplan),
               BoreFeatures(w.bore_fc, lotplan, <<>>, {}),
               EasementFeatures(w.easement_fc, 1, pu.value, lotplan, predicate_raises))

\* lines 816-922
vector_response(w, lotplan, predicate_raises) ==
    AnswerFor(w, lotplan, predicate_raises, LotUnion(w), LotLandTypes(w))

\* the easements on which parcel_union.intersects may raise
MayRaise(w) ==
    {k \in 1..Len(w.easement_fc) :
        IntersectsMayRaise(LotUnion(w).value, w.easement_fc[k].geometry)}

VectorGeojson ==
    /\ pc = "vector"
    /\ \E predicate_raises \in [1..Len(world[1].easement_fc) -> BOOLEAN] :
          /\ \A k \in 1..Len(world[1].easement_fc) :
                predicate_raises[k] => k \in MayRaise(world[1])
          /\ \E answer \in {vector_response(world[1], Lotplan(lp), predicate_raises)} :
                /\ response' = answer.status_code
                /\ content' = answer.content
    /\ pc' = "done"
    /\ UNCHANGED <<world, payload, lp, bulk_groups, all_lt_clipped, all_veg_clipped,
                   all_bore_points, kmz_assets, seen_all_bores, manifest_rows, zf,
                   archive>>
    /\ UNCHANGED <<overlayVars, renderVars, attempts, clipVars, queryVars>>

InitVector ==
    /\ pc = "vector"
    /\ lp \in 1..MaxLots
    /\ world \in {<<VectorWorldOf(lp, c)>> : c \in VectorCases}
    /\ payload = None
    /\ bulk_groups = <<>>
    /\ all_lt_clipped = <<>>
    /\ all_veg_clipped = <<>>
    /\ all_bore_points = <<>>
    /\ kmz_assets = <<>>
    /\ seen_all_bores = {}
    /\ manifest_rows = <<>>
    /\ zf = <<>>
    /\ archive = None
    /\ response = 0
    /\ content = None
    /\ ClipIdle
    /\ QueryIdle
    /\ OverlayIdle
    /\ RenderIdle

NextVector == VectorGeojson

SpecVector == InitVector /\ [][NextVector]_vars

---------------------------------------------------------------------------
(* What the overlay is specified to do, stated on the inputs *)

\* the region covered by the parcel features that parse
ParcelRegion ==
    UNION {parcel_fc[n].geometry.cells :
              n \in {m \in 1..Len(parcel_fc) : parcel_fc[m].geometry.defect # "unparsable"}}

\* the parcel union can be built and is not empty
ParcelUnionExists ==
    /\ ParcelRegion # {}
    /\ \A n \in 1..Len(parcel_fc) : parcel_fc[n].geometry.defect # "unrepairable"

Returned == pc = "done"

Ended == pc \in {"done", "raised"}

KeyOf(shape) == <<shape.code, shape.name>>

\* a value a classification can be read from
Usable(v) == v \notin {Absent, Null, StrV(""), NumV("0")}

RECURSIVE FirstUsable(_, _, _)
FirstUsable(props, fields, default) ==
    IF fields = <<>> THEN default
    ELSE IF Usable(props[Head(fields)]) THEN props[Head(fields)].s
    ELSE FirstUsable(props, Tail(fields), default)

ClaimCode(props) == FirstUsable(props, CodeFields, "UNK")

ClaimName(props) == FirstUsable(props, NameFields, ClaimCode(props))

RECURSIVE SumAreas(_, _)
SumAreas(seq, idx) ==
    IF idx = {} THEN 0
    ELSE LET n == CHOOSE m \in idx : TRUE IN seq[n].area + SumAreas(seq, idx \ {n})

Group(seq, key) == {n \in 1..Len(seq) : KeyOf(seq[n]) = key}

---------------------------------------------------------------------------
(* C1: a returned overlay never holds two shapes with the same
   (classification_code, classification_name) pair *)
C1_DissolveUnique ==
    Returned =>
        \A a, b \in 1..Len(result) : a # b => KeyOf(result[a]) # KeyOf(result[b])

\* two intersections of one key were dissolved into one shape
C1_Witness ==
    /\ Returned
    /\ Len(out) = 2
    /\ KeyOf(out[1]) = KeyOf(out[2])
    /\ Len(result) = 1

(* C2: every returned shape has a non-empty geometry contained in the parcel
   union, also after a repaired retry and after dissolving *)
C2_ClipContainment ==
    Returned =>
        \A k \in 1..Len(result) :
            /\ result[k].geom.cells # {}
            /\ result[k].geom.cells \subseteq ParcelRegion

\* a feature reaching beyond the parcel was clipped on the repaired retry and
\* dissolved with another one
C2_Witness ==
    /\ Returned
    /\ Len(out) = 2
    /\ Len(result) = 1
    /\ \E n \in 1..Len(thematic_fc) :
          /\ thematic_fc[n].geometry.defect = "invalid"
          /\ ~(thematic_fc[n].geometry.cells \subseteq ParcelRegion)

(* C3: every group of surviving intersections yields one returned shape whose
   geometry is the union of the group's intersections and whose area is the
   sum of the areas computed for each intersection *)
C3_GroupUnionAndAreaSum ==
    Returned =>
        /\ \A n \in 1..Len(out) : \E k \in 1..Len(result) : KeyOf(result[k]) = KeyOf(out[n])
        /\ \A k \in 1..Len(result) :
              LET grp == Group(out, KeyOf(result[k]))
              IN  /\ grp # {}
                  /\ result[k].geom.cells = UNION {out[n].geom.cells : n \in grp}
                  /\ result[k].area = SumAreas(out, grp)

\* overlapping intersections of one group: the summed area exceeds the area
\* of the unioned geometry
C3_Witness ==
    /\ Returned
    /\ \E k \in 1..Len(result) :
          /\ Cardinality(Group(out, KeyOf(result[k]))) = 2
          /\ result[k].area > SumOver(result[k].geom.cells, Area6933)

\* the thematic collection is two sound, disjoint polygons inside the parcel
\* that carry the same code
TwoDisjointSameCode ==
    /\ ParcelUnionExists
    /\ Len(thematic_fc) = 2
    /\ \A n \in 1..2 :
          /\ thematic_fc[n].geometry.defect = "none"
          /\ thematic_fc[n].geometry.cells # {}
          /\ thematic_fc[n].geometry.cells \subseteq ParcelRegion
    /\ thematic_fc[1].geometry.cells \cap thematic_fc[2].geometry.cells = {}
    /\ ClaimCode(thematic_fc[1].props) = ClaimCode(thematic_fc[2].props)

TwoDisjointSameKey ==
    /\ TwoDisjointSameCode
    /\ ClaimName(thematic_fc[1].props) = ClaimName(thematic_fc[2].props)

\* exactly one shape with the code of the two polygons, their union and the
\* sum of their areas
OneShapeForBoth ==
    LET code == ClaimCode(thematic_fc[1].props)
        with == {k \in 1..Len(result) : result[k].code = code}
    IN  /\ Returned
        /\ Cardinality(with) = 1
        /\ \A k \in with :
              /\ result[k].geom.cells =
                    thematic_fc[1].geometry.cells \cup thematic_fc[2].geometry.cells
              /\ result[k].area =
                    SumOver(thematic_fc[1].geometry.cells, Area6933)
                    + SumOver(thematic_fc[2].geometry.cells, Area6933)

(* C4, as claimed: two disjoint polygons inside the parcel with the same code
   give exactly one shape with that code, their union, the sum of their areas *)
C4_SameCodeOneShape == (Ended /\ TwoDisjointSameCode) => OneShapeForBoth

(* C4, amended: two disjoint polygons inside the parcel with the same code and
   the same name give exactly one shape with that code, their union, the sum
   of their areas *)
C4_SameKeyOneShape == (Ended /\ TwoDisjointSameKey) => OneShapeForBoth

C4_Witness ==
    /\ Returned
    /\ TwoDisjointSameKey
    /\ Len(result) = 1

\* a feature the overlay is specified to leave out: unparsable, not
\* intersectable even after repair, without a computable area, or not
\* unionable with the rest of its group
Offending(fc, n) ==
    \/ fc[n].geometry.defect \in {"unparsable", "unrepairable", "all_proj_fail"}
    \/ /\ fc[n].geometry.defect = "union_fails"
       /\ \E m \in 1..Len(fc) :
             /\ m # n
             /\ ClaimCode(fc[m].props) = ClaimCode(fc[n].props)
             /\ ClaimName(fc[m].props) = ClaimName(fc[n].props)

RECURSIVE Keeping(_, _, _)
Keeping(fc, n, keep) ==
    IF n > Len(fc) THEN <<>>
    ELSE (IF n \in keep THEN <<fc[n]>> ELSE <<>>) \o Keeping(fc, n + 1, keep)

WithoutOffending(fc) == Keeping(fc, 1, {n \in 1..Len(fc) : ~Offending(fc, n)})

(* C5: with a non-empty parcel union the overlay never raises on account of a
   thematic feature and returns what it returns without the offending features *)
C5_DegradesByOmission ==
    (Ended /\ ParcelUnionExists) =>
        /\ Returned
        /\ result = prepare_clipped_shapes(parcel_fc, WithoutOffending(thematic_fc)).value

C7_CodeAndNameFromCandidates ==
    Returned =>
        /\ \A k \in 1..Len(result) :
              /\ result[k].code # ""
              /\ result[k].name # ""
              /\ \E n \in 1..Len(thematic_fc) :
                    /\ result[k].code = ClaimCode(thematic_fc[n].props)
                    /\ result[k].name = ClaimName(thematic_fc[n].props)
        /\ \A n \in 1..Len(thematic_fc) :
              (/\ ParcelUnionExists
               /\ thematic_fc[n].geometry.defect = "none"
               /\ thematic_fc[n].geometry.cells \cap ParcelRegion # {})
              => \E k \in 1..Len(result) :
                    /\ result[k].code = ClaimCode(thematic_fc[n].props)
                    /\ result[k].name = ClaimName(thematic_fc[n].props)

\* the code comes from the last candidate because an earlier one is unusable,
\* and the name falls back to the code
C7_Witness ==
    /\ Returned
    /\ Len(result) = 1
    /\ thematic_fc[1].props["code"] = StrV("")
    /\ thematic_fc[1].props["lt_code_1"] = NumV("7")
    /\ result[1].code = "7"
    /\ result[1].name = "7"

\* the land-type record, as fetched, has a name and no code: every code
\* candidate is missing, null or blank
NameButNoCode(props) ==
    /\ \A n \in 1..Len(CodeFields) :
          props[CodeFields[n]] \in {Absent, Null, StrV(""), StrV(" ")}
    /\ Usable(props[LANDTYPES_NAME_FIELD])
    /\ Strip(props[LANDTYPES_NAME_FIELD].s) # ""

(* C8: a record with a usable name and no usable code is returned with its
   name as its code *)
C8_CodeFallsBackToName ==
    Returned =>
        \A n \in 1..Len(fetched_fc) :
            NameButNoCode(fetched_fc[n].props)
            => \E k \in 1..Len(result) :
                  result[k].code = Strip(fetched_fc[n].props[LANDTYPES_NAME_FIELD].s)

---------------------------------------------------------------------------
(* What the merge is specified to do, stated on the inputs *)

RECURSIVE SumCode(_, _)
SumCode(shapes, c) ==
    IF shapes = <<>> THEN 0
    ELSE (IF Head(shapes).code = c THEN Head(shapes).area ELSE 0) + SumCode(Tail(shapes), c)

RECURSIVE SumCodeLots(_, _)
SumCodeLots(lots, c) ==
    IF lots = <<>> THEN 0 ELSE SumCode(Head(lots), c) + SumCodeLots(Tail(lots), c)

\* the input shapes of a key, as (lot, position) pairs
InputsOf(key) ==
    {p \in {<<l, n>> : l \in 1..Len(all_clipped_data), n \in 1..MaxShapesPerLot} :
        /\ p[2] <= Len(all_clipped_data[p[1]])
        /\ KeyOf(all_clipped_data[p[1]][p[2]]) = key}

InputKeys == {key \in MergeKeys : InputsOf(key) # {}}

\* the first input shape of a key, in lot order
FirstOf(key) ==
    CHOOSE p \in InputsOf(key) :
        \A q \in InputsOf(key) : p[1] < q[1] \/ (p[1] = q[1] /\ p[2] <= q[2])

\* the union of the group cannot be computed
GroupUnionFails(key) ==
    \E p \in InputsOf(key) : all_clipped_data[p[1]][p[2]].geom.defect = "union_fails"

(* C9: per classification code, the areas of the merged shapes sum to the
   areas of all input shapes of that code, also when a group's union fails *)
C9_AreaPerCodePreserved ==
    Returned =>
        \A key \in MergeKeys : SumCode(result, key[1]) = SumCodeLots(all_clipped_data, key[1])

\* a group of two lots whose union failed, next to another group of its code
C9_Witness ==
    /\ Returned
    /\ Len(all_clipped_data) >= 2
    /\ GroupUnionFails(<<"A", "A">>)
    /\ Cardinality(InputsOf(<<"A", "A">>)) = 2
    /\ InputsOf(<<"A", "N">>) # {}
    /\ Len(result) = 2

(* C10: the merge returns exactly one shape per (code, name) pair of the
   input, holding the union of the pair's geometries, or its first geometry
   when the union fails *)
C10_OneShapePerKey ==
    Returned =>
        /\ \A key \in InputKeys : Cardinality(Group(result, key)) = 1
        /\ \A k \in 1..Len(result) :
              LET key == KeyOf(result[k])
              IN  /\ key \in InputKeys
                  /\ IF GroupUnionFails(key)
                     THEN result[k].geom =
                              all_clipped_data[FirstOf(key)[1]][FirstOf(key)[2]].geom
                     ELSE result[k].geom.cells =
                              UNION {all_clipped_data[p[1]][p[2]].geom.cells : p \in InputsOf(key)}

\* one group was unioned over two lots and another fell back to its first geometry
C10_Witness ==
    /\ Returned
    /\ Len(all_clipped_data) >= 2
    /\ GroupUnionFails(<<"A", "A">>)
    /\ Cardinality(InputsOf(<<"A", "A">>)) = 2
    /\ Cardinality(InputsOf(<<"B", "B">>)) = 2
    /\ \E k \in 1..Len(result) :
          /\ KeyOf(result[k]) = <<"B", "B">>
          /\ \A p \in InputsOf(<<"B", "B">>) :
                all_clipped_data[p[1]][p[2]].geom.cells # result[k].geom.cells
    /\ \E k \in 1..Len(result) :
          /\ KeyOf(result[k]) = <<"A", "A">>
          /\ result[k].geom.cells # UNION {all_clipped_data[p[1]][p[2]].geom.cells : p \in InputsOf(<<"A", "A">>)}


---------------------------------------------------------------------------
(* Colours *)

\* the (r, g, b) triple a style colour string encodes, and its alpha
StyleRGB(s) == <<int16(SubSeq(s, 7, 8)), int16(SubSeq(s, 5, 6)), int16(SubSeq(s, 3, 4))>>
StyleA(s) == int16(SubSeq(s, 1, 2))

HashByte(c, k) == md5(c)[k]

\* C17: for every code, the empty string included, each channel of
\* color_from_code is an integer in 128..255 and equals
\* 128 + floor(127 * v / 255) for the hash byte v of that channel; a byte 0
\* gives 128, a byte 255 gives 255, and a larger byte never gives a smaller
\* channel.
C17_ChannelsInUpperHalf ==
    raster_rgb # None =>
        /\ \A k \in 1..3 :
              /\ raster_rgb[k] \in 128..255
              /\ raster_rgb[k] = 128 + ((127 * HashByte(color_code, k)) \div 255)
              /\ HashByte(color_code, k) = 0 => raster_rgb[k] = 128
              /\ HashByte(color_code, k) = 255 => raster_rgb[k] = 255
        /\ \A c \in Md5Domain : \A k, j \in 1..3 :
              HashByte(color_code, k) <= HashByte(c, j)
                  => raster_rgb[k] <= color_from_code(c)[j]

C17_Witness ==
    /\ color_code = ""
    /\ raster_rgb = <<233, 142, 197>>
    /\ \A v \in 0..255 : \E c \in Md5Domain : \E k \in 1..3 : HashByte(c, k) = v


---------------------------------------------------------------------------
(* Raster size *)

BoxWidth == bounds4326[3] - bounds4326[1]
BoxHeight == bounds4326[4] - bounds4326[2]

\* the extents as choose_raster_size uses them
UsedWidth == max(BoxWidth, MinExtent)
UsedHeight == max(BoxHeight, MinExtent)

SizeChosen == pc = "done" /\ size # None

Abs(x) == IF x < 0 THEN 0 - x ELSE x

\* what the longer and the shorter extent w and h are specified to give
SizeFrom(w, h) ==
    IF w >= h
    THEN <<max_px, max(1, round(max_px * h, w))>>
    ELSE <<max(1, round(max_px * w, h)), max_px>>

\* C12 as stated: for a box of positive width and height, the dimension of
\* the larger extent (the width on a tie) gets max_px pixels and the other
\* max(1, round(max_px * shorter / longer)); both lie in 1..max_px; a 2:1
\* box with max_px = 1000 gives 1000x500 and a 1:2 box 500x1000.
C12_SizeFromExtents ==
    (SizeChosen /\ BoxWidth > 0 /\ BoxHeight > 0) =>
        /\ size = SizeFrom(BoxWidth, BoxHeight)
        /\ size[1] \in 1..max_px
        /\ size[2] \in 1..max_px
        /\ (max_px = 1000 /\ BoxWidth = 2 * BoxHeight) => size = <<1000, 500>>
        /\ (max_px = 1000 /\ BoxHeight = 2 * BoxWidth) => size = <<500, 1000>>

\* C12, amended: the same with every extent first raised to at least 1e-9
\* degrees; the 2:1 and 1:2 examples hold for boxes whose shorter extent
\* is at least 1e-9 degrees.
C12_SizeFromRaisedExtents ==
    SizeChosen =>
        /\ size = SizeFrom(UsedWidth, UsedHeight)
        /\ size[1] \in 1..max_px
        /\ size[2] \in 1..max_px
        /\ (max_px = 1000 /\ UsedWidth = 2 * UsedHeight) => size = <<1000, 500>>
        /\ (max_px = 1000 /\ UsedHeight = 2 * UsedWidth) => size = <<500, 1000>>

C12_Witness ==
    /\ SizeChosen
    /\ max_px = 1000
    /\ BoxWidth = 4
    /\ BoxHeight = 2
    /\ size = <<1000, 500>>

\* C13 as stated: for a box of positive width and height the chosen size
\* has width * bbox_height = height * bbox_width.
C13_AspectExact ==
    (SizeChosen /\ BoxWidth > 0 /\ BoxHeight > 0) =>
        size[1] * BoxHeight = size[2] * BoxWidth

\* C13, amended: with the extents raised to at least 1e-9 degrees, the
\* longer dimension gets max_px and the shorter one is within half a pixel
\* of max_px * shorter / longer, or is 1 where that is below one half; the
\* ratio is exact when max_px * shorter / longer is a whole number >= 1.
C13_AspectWithinHalfPixel ==
    SizeChosen =>
        LET w == UsedWidth
            h == UsedHeight
            long == max(w, h)
            short == IF w >= h THEN h ELSE w
            got == IF w >= h THEN size[2] ELSE size[1]
        IN  /\ (IF w >= h THEN size[1] ELSE size[2]) = max_px
            /\ \/ 2 * Abs((got * long) - (max_px * short)) <= long
               \/ got = 1 /\ 2 * max_px * short < long
            /\ ((max_px * short) % long = 0 /\ max_px * short >= long)
                   => size[1] * h = size[2] * w

C13_Witness ==
    /\ SizeChosen
    /\ max_px = 1000
    /\ BoxWidth = 6
    /\ BoxHeight = 2
    /\ size = <<1000, 333>>


---------------------------------------------------------------------------
(* Raster compositor *)

NShapes == Len(shapes_clipped_4326)

\* C11: a call with an empty shape list ends with the empty-overlay error,
\* and then no bounds, size, class raster or planes have been computed and
\* the output file has not been created; a call with a non-empty list
\* never ends with that error.
C11_EmptyOverlayBeforeAnyWork ==
    /\ (shapes_clipped_4326 = <<>> /\ pc # "raster_call") =>
          /\ pc = "raised"
          /\ error = EmptyOverlay
    /\ error = EmptyOverlay =>
          /\ shapes_clipped_4326 = <<>>
          /\ size = None
          /\ code_to_id = <<>>
          /\ class_raster = None
          /\ rgba = None
          /\ out_file = None
          /\ legend = None
    /\ shapes_clipped_4326 # <<>> => (error = "none" /\ pc # "raised")

C11_Witness ==
    /\ pc = "raised"
    /\ shapes_clipped_4326 = <<>>
    /\ error = EmptyOverlay
    /\ out_file = None

\* the shapes painted on pixel p, by their place in the list
Painters(p) == {k \in 1..NShapes : p \in shapes_clipped_4326[k].geom.cells}

LastPainter(p) == CHOOSE k \in Painters(p) : \A m \in Painters(p) : m <= k

CodeOn(p) == shapes_clipped_4326[LastPainter(p)].code

CodesPainted == {shapes_clipped_4326[k].code : k \in 1..NShapes}

FirstPlace(c) ==
    CHOOSE k \in 1..NShapes :
        /\ shapes_clipped_4326[k].code = c
        /\ \A m \in 1..(k - 1) : shapes_clipped_4326[m].code # c

\* every pixel of the written raster is background or the opaque colour of
\* the code of the last shape painted on it; the class ids are 1..n, one
\* per code, in the order of first appearance
PixelsAndIds ==
    /\ \A p \in Pixels :
          IF Painters(p) = {}
          THEN /\ class_raster[p] = 0
               /\ out_file[p] = <<0, 0, 0, 0>>
          ELSE /\ class_raster[p] \in 1..Len(code_to_id)
               /\ code_to_id[class_raster[p]] = CodeOn(p)
               /\ out_file[p] = color_from_code(CodeOn(p)) \o <<255>>
    /\ Len(code_to_id) = Cardinality(CodesPainted)
    /\ SeqRange(code_to_id) = CodesPainted
    /\ \A a, b \in 1..Len(code_to_id) :
          a < b => FirstPlace(code_to_id[a]) < FirstPlace(code_to_id[b])

\* C14 as stated: the pixels and ids are as above, and pixels whose last
\* shapes have different codes never have the same value.
C14_PixelsTellCodesApart ==
    (pc \in {"legend", "done"}) =>
        /\ PixelsAndIds
        /\ \A p, q \in Pixels :
              (Painters(p) # {} /\ Painters(q) # {} /\ CodeOn(p) # CodeOn(q))
                  => out_file[p] # out_file[q]

\* C14, amended: the pixels and ids are as above; pixels whose last shapes
\* have different codes have different class ids, and the same value in
\* the written raster exactly when color_from_code gives both codes the
\* same triple.
C14_ClassIdsTellCodesApart ==
    (pc \in {"legend", "done"}) =>
        /\ PixelsAndIds
        /\ \A p, q \in Pixels :
              (Painters(p) # {} /\ Painters(q) # {} /\ CodeOn(p) # CodeOn(q))
                  => /\ class_raster[p] # class_raster[q]
                     /\ (out_file[p] = out_file[q])
                            <=> (color_from_code(CodeOn(p)) = color_from_code(CodeOn(q)))

\* a shape of one code painted over a shape of another, and a pixel left
\* as background
C14_Witness ==
    /\ pc = "done"
    /\ NShapes = 2
    /\ shapes_clipped_4326[1].code = "A"
    /\ shapes_clipped_4326[1].geom.cells = Cells
    /\ shapes_clipped_4326[2].code = "BH5"
    /\ shapes_clipped_4326[2].geom.cells = {1}
    /\ out_file[0] = <<0, 0, 0, 0>>
    /\ out_file[1] = <<252, 141, 137, 255>>
    /\ out_file[2] = color_from_code("A") \o <<255>>
    /\ class_raster = [p \in Pixels |-> IF p = 0 THEN 0 ELSE IF p = 1 THEN 2 ELSE 1]

\* the areas of the shapes of code c, added up
RECURSIVE AreaOfCode(_, _)
AreaOfCode(shapes, c) ==
    IF shapes = <<>> THEN 0
    ELSE (IF Head(shapes).code = c THEN Head(shapes).area ELSE 0)
             + AreaOfCode(Tail(shapes), c)

\* C15: the returned legend has one entry per code of the shape list and
\* no other entry; an entry's area_ha is the sum of area_hectares of the
\* shapes of its code; every entry has a larger area than the next, or the
\* same area and a smaller code.
C15_LegendPerCodeSummedOrdered ==
    (pc = "done" /\ legend # None) =>
        /\ {legend[k].code : k \in 1..Len(legend)} = CodesPainted
        /\ Len(legend) = Cardinality(CodesPainted)
        /\ \A k \in 1..Len(legend) :
              /\ legend[k].area_ha = AreaOfCode(shapes_clipped_4326, legend[k].code)
              /\ legend[k].color = color_from_code(legend[k].code)
        /\ \A k \in 1..(Len(legend) - 1) :
              \/ legend[k].area_ha > legend[k + 1].area_ha
              \/ /\ legend[k].area_ha = legend[k + 1].area_ha
                 /\ StrLess(legend[k].code, legend[k + 1].code)

\* two codes with the same total, one of them made of two shapes, first
\* seen in another order than the legend's
C15_Witness ==
    /\ pc = "done"
    /\ NShapes = 3
    /\ shapes_clipped_4326[1].code = "DM7"
    /\ shapes_clipped_4326[2].code = "A"
    /\ shapes_clipped_4326[3].code = "A"
    /\ Len(legend) = 2
    /\ legend[1].code = "A"
    /\ legend[1].area_ha = shapes_clipped_4326[2].area + shapes_clipped_4326[3].area
    /\ legend[2].code = "DM7"
    /\ legend[2].area_ha = legend[1].area_ha


---------------------------------------------------------------------------
(* Vector document assembler *)

Built == pc = "done" /\ kml # None

\* the groups of the call, in order
CallGroups ==
    IF kml_call.fn = "build_kml"
    THEN <<KmlGroup(kml_call.clipped, kml_call.folder_name, kml_call.point_placemarks)>>
    ELSE IF kml_call.fn = "build_kml_folders" THEN kml_call.groups
    ELSE AllGroups(kml_call.nested_groups)

RECURSIVE AllShapes(_)
AllShapes(groups) ==
    IF groups = <<>> THEN <<>> ELSE Head(groups).clipped \o AllShapes(Tail(groups))

RECURSIVE AllPoints(_)
AllPoints(groups) ==
    IF groups = <<>> THEN <<>> ELSE Head(groups).points \o AllPoints(Tail(groups))

CallCodes == {s.code : s \in SeqRange(AllShapes(CallGroups))}

IsFolder(e) == e.tag = "Folder"
IsStyle(e) == e.tag = "Style"
IsPolygonPlacemark(e) == e.tag = "Placemark" /\ e.kind = "polygon"

\* the elements of the document, below its name
Kids == kml.children

StylesAt(kind) == {k \in 1..Len(Kids) : IsStyle(Kids[k]) /\ Kids[k].kind = kind}

RECURSIVE ChildrenOf(_)
ChildrenOf(folders) ==
    IF folders = <<>> THEN <<>> ELSE Head(folders).children \o ChildrenOf(Tail(folders))

\* the folders that hold placemarks, in document order
LeafFolders ==
    IF kml_call.fn = "build_kml_nested_folders"
    THEN ChildrenOf(SelectSeq(Kids, IsFolder))
    ELSE SelectSeq(Kids, IsFolder)

\* C18: the document of each of the three builders has exactly one polygon
\* Style for every code of its input, whatever the number of groups and
\* folders the code occurs in, and no other polygon Style; every Style is
\* a child of the document and stands before the first Folder, and the
\* folders hold only folders and placemarks.
C18_OnePolygonStylePerCode ==
    Built =>
        /\ \A c \in CallCodes :
              Cardinality({k \in StylesAt("poly") : Kids[k].id = "s_" \o Escape(c)}) = 1
        /\ Cardinality(StylesAt("poly")) = Cardinality(CallCodes)
        /\ \A s, f \in 1..Len(Kids) : (IsStyle(Kids[s]) /\ IsFolder(Kids[f])) => s < f
        /\ \A k \in 1..Len(LeafFolders) :
              \A e \in SeqRange(LeafFolders[k].children) : e.tag = "Placemark"
        /\ kml_call.fn = "build_kml_nested_folders" =>
              \A e \in SeqRange(ChildrenOf(SelectSeq(Kids, IsFolder))) : IsFolder(e)

\* a code in both folders of a document, and a second code
C18_Witness ==
    /\ Built
    /\ kml_call.fn = "build_kml_nested_folders"
    /\ Len(kml_call.nested_groups) = 2
    /\ Len(CallGroups[1].clipped) = 2
    /\ CallGroups[1].clipped[1].code = "A"
    /\ CallGroups[1].clipped[2].code = "A&B"
    /\ Len(CallGroups[2].clipped) = 1
    /\ CallGroups[2].clipped[1].code = "A"
    /\ Len(Kids) = 4
    /\ Kids[1].id = "s_A"
    /\ Kids[2].id = "s_A&amp;B"
    /\ IsFolder(Kids[3])

\* the points a Style is collected from
Styled(p) == p.style_id # "" /\ p.icon_href # ""

IconPairs == {<<p.icon_href, p.scale>> : p \in {q \in SeqRange(AllPoints(CallGroups)) : q.icon_href # ""}}

StyleIds == {p.style_id : p \in {q \in SeqRange(AllPoints(CallGroups)) : Styled(q)}}

FirstStyled(sid) ==
    LET pts == AllPoints(CallGroups)
        at == CHOOSE k \in 1..Len(pts) :
                  /\ Styled(pts[k]) /\ pts[k].style_id = sid
                  /\ \A m \in 1..(k - 1) : ~(Styled(pts[m]) /\ pts[m].style_id = sid)
    IN  pts[at]

\* C19 as stated: the document has exactly one icon Style for every
\* (icon_reference, scale) pair of the points that reference an icon, and
\* no other icon Style.
C19_OneIconStylePerPair ==
    Built =>
        /\ \A pr \in IconPairs :
              Cardinality({k \in StylesAt("icon") :
                              Kids[k].href = Escape(pr[1]) /\ Kids[k].scale = pr[2]}) = 1
        /\ Cardinality(StylesAt("icon")) = Cardinality(IconPairs)

\* C19, amended: the document has exactly one icon Style for every style
\* id of the points that have a style id and an icon reference, with the
\* icon reference and scale of the first such point, and no other icon
\* Style.
C19_OneIconStylePerStyleId ==
    Built =>
        /\ \A sid \in StyleIds :
              /\ Cardinality({k \in StylesAt("icon") : Kids[k].id = Escape(sid)}) = 1
              /\ \A k \in StylesAt("icon") :
                    Kids[k].id = Escape(sid) =>
                        /\ Kids[k].href = Escape(FirstStyled(sid).icon_href)
                        /\ Kids[k].scale = FirstStyled(sid).scale
        /\ Cardinality(StylesAt("icon")) = Cardinality(StyleIds)

\* two icons under one style id: the second is not in the document
C19_Witness ==
    /\ Built
    /\ kml_call.fn = "build_kml"
    /\ kml_call.clipped = <<>>
    /\ Len(kml_call.point_placemarks) = 2
    /\ kml_call.point_placemarks[1].style_id = "bore_a"
    /\ kml_call.point_placemarks[1].icon_href = "icons/a.png"
    /\ kml_call.point_placemarks[2].style_id = "bore_a"
    /\ kml_call.point_placemarks[2].icon_href = "icons/b.png"
    /\ Cardinality(StylesAt("icon")) = 1
    /\ Kids[1].href = "icons/a.png"

\* the shape lists the leaf folders are built from, in document order
FolderShapes ==
    IF kml_call.fn = "build_kml"
    THEN <<kml_call.clipped>>
             \o (IF kml_call.point_placemarks = <<>> THEN <<>> ELSE <<(<<>>)>>)
    ELSE [k \in 1..Len(CallGroups) |-> CallGroups[k].clipped]

\* C20: every folder holds one polygon Placemark per shape of its group,
\* in order, whatever the geometry of the shape; the Placemark of a shape
\* of two or more parts holds one MultiGeometry with all the parts.
C20_OnePlacemarkPerShape ==
    Built =>
        /\ Len(LeafFolders) = Len(FolderShapes)
        /\ \A k \in 1..Len(LeafFolders) :
              LET pms == SelectSeq(LeafFolders[k].children, IsPolygonPlacemark)
                  shapes == FolderShapes[k]
              IN  /\ Len(pms) = Len(shapes)
                  /\ \A j \in 1..Len(shapes) :
                        /\ pms[j].styleUrl = "#s_" \o Escape(shapes[j].code)
                        /\ shapes[j].geom.parts >= 2 =>
                              /\ pms[j].geometry.tag = "MultiGeometry"
                              /\ Len(pms[j].geometry.parts) = shapes[j].geom.parts


\* C21: build_kml called with no shape and at least one point returns a
\* document whose only Folder is the point folder, which holds one point
\* Placemark per point, in order.
C21_OnlyThePointFolder ==
    (/\ Built
     /\ kml_call.fn = "build_kml"
     /\ kml_call.clipped = <<>>
     /\ kml_call.point_placemarks # <<>>) =>
        LET folders == SelectSeq(Kids, IsFolder)
        IN  /\ Len(folders) = 1
            /\ folders[1].name = Escape(kml_call.point_folder_name)
            /\ folders[1].children = PointPlacemarks(kml_call.point_placemarks)


\* C26: for each thematic feature prepare_clipped_shapes calls the
\* intersection with the parcel union at most twice, first on the geometry
\* as parsed; the second call, on the repaired geometry, is made only after
\* the first raised; when the second raises too the feature is skipped
\* (nothing is appended for it and the loop goes on), and there is no
\* third call.
C26_AtMostOneRetry ==
    /\ [](\A k \in 1..Len(attempts) :
            LET a == attempts[k]
            IN  /\ Len(a) <= 2
                /\ Len(a) >= 1 => a[1].operand = "g"
                /\ Len(a) = 2 => (a[1].raised /\ a[2].operand = "make_valid(g)"))
    /\ [][(/\ Len(attempts') = Len(attempts) + 1
           /\ LET a == attempts'[Len(attempts')]
              IN  Len(a) = 2 /\ a[2].raised)
          => (out' = out /\ pc' = "loop")]_vars

\* a feature whose two calls both raised and was skipped, then a feature
\* whose second call gave the shape that was kept
C26_Witness ==
    /\ pc = "done"
    /\ Len(attempts) = 2
    /\ attempts[1] = <<Call("g", TRUE), Call("make_valid(g)", TRUE)>>
    /\ attempts[2] = <<Call("g", TRUE), Call("make_valid(g)", FALSE)>>
    /\ Len(out) = 1
    /\ Len(result) = 1


\* C29: for a parcel union that is not empty and any geometry,
\* _clip_to_parcel_union returns None or a non-empty geometry that lies
\* within the parcel union, also when calls of the intersection raise.
C29_ClipWithinParcelUnion ==
    (/\ pc = "done"
     /\ clip_geom # None
     /\ parcel_union # None
     /\ clipped_geom # None) =>
        (~is_empty(parcel_union) =>
            /\ ~is_empty(clipped_geom)
            /\ clipped_geom.cells \subseteq parcel_union.cells)


\* the features 1..n in order
UpTo(n) == [k \in 1..n |-> k]

Placemarks == ChildrenOf(LeafFolders)

\* C27: in the document of each of the three builders every styleUrl of a
\* placemark, polygon or point, names a Style of the same document,
\* whatever the shapes and whatever the points, with or without a style id
\* and an icon reference.
C27_StyleUrlsResolve ==
    Built =>
        \A m \in 1..Len(Placemarks) :
            Placemarks[m].styleUrl # "" =>
                \E k \in 1..Len(Kids) :
                    IsStyle(Kids[k]) /\ Placemarks[m].styleUrl = "#" \o Kids[k].id


\* the point placemarks of the document, in order
PointMarks == SelectSeq(Placemarks, LAMBDA e : e.kind = "point")

\* C22: in the document of the bulk export, with one folder per parcel and
\* the merged folders of all parcels, no two point placemarks carry the
\* same bore number.
C22_OnePlacemarkPerBore ==
    (Built /\ response = 200) =>
        \A m, n \in 1..Len(PointMarks) :
            PointMarks[m].name = PointMarks[n].name => m = n


\* the parcels of the request whose processing raised nowhere
Processed == {l \in 1..Len(world) : RaisesAt(world[l]) = "none"}

\* C28: in the bulk export a parcel whose processing raises at any step
\* leaves nothing in the document or the archive: every shape lies in the
\* parcels that were processed, every point placemark is a bore of one of
\* them, every icon of the archive is an icon of one of them, and no
\* folder carries the name of a parcel that raised.
C28_RaisingParcelLeavesNothing ==
    (Built /\ response = 200) =>
        /\ \A s \in SeqRange(AllShapes(CallGroups)) :
              s.geom.cells \subseteq UNION {LotRegion(l) : l \in Processed}
        /\ \A m \in 1..Len(PointMarks) :
              \E l \in Processed :
                  \E p \in SeqRange(LotBores(world[l]).placemarks) :
                      PointMarks[m].name = Escape(p.name)
        /\ \A k \in 2..Len(archive) :
              \E l \in Processed :
                  \E a \in SeqRange(LotBores(world[l]).assets) : archive[k].name = a.name
        /\ \A l \in 1..Len(world) :
              l \notin Processed =>
                  \A k \in 1..Len(Kids) : IsFolder(Kids[k]) => Kids[k].name # Escape(Lotplan(l))


\* the folders of the parcel in the bulk document, empty when it has no data
LotFolders(l) ==
    Subfolders(LotLandTypes(world[l]).value, LotVeg(world[l]).value,
               LotBores(world[l]).placemarks)

\* the parcel ran through the land-type step of the ZIP bundle and has shapes
HasLandTypes(l) ==
    /\ world[l].fails \notin {"parcel", "landtypes", "bores"}
    /\ ~LotUnion(world[l]).raised
    /\ ~LotLandTypes(world[l]).raised
    /\ LotLandTypes(world[l]).value # <<>>

\* the parcel ran through the vegetation step of the ZIP bundle and has shapes
HasVegetation(l) ==
    /\ world[l].fails \notin {"parcel", "veg"}
    /\ ~LotUnion(world[l]).raised
    /\ ~LotVegZip(world[l]).raised
    /\ LotVegZip(world[l]).value # <<>>

ZipNames == {zf[k].name : k \in 1..Len(zf)}

\* C23: a batch export over several parcels ends with an answer whatever
\* raises for single parcels.  The bulk KMZ export answers 404 exactly
\* when no parcel that was processed without raising has data, and
\* otherwise 200 with a document that holds, for every such parcel with
\* data, a folder of its name with its subfolders.  The ZIP export always
\* answers 200, its manifest has exactly one row per requested parcel, in
\* order, and the bundle holds the land-type and vegetation files of every
\* parcel whose step did not raise and that has shapes.
C23_BatchNeverFailsWholesale ==
    pc = "done" =>
        IF payload.format = "kmz"
        THEN /\ response \in {200, 404}
             /\ response = 404 <=> \A l \in Processed : LotFolders(l) = <<>>
             /\ response = 200 =>
                   /\ archive[1].name = "doc.kml"
                   /\ archive[1].data = kml
                   /\ \A l \in Processed :
                         LotFolders(l) # <<>> =>
                            \E k \in 1..Len(Kids) :
                               Kids[k] = Folder(Lotplan(l), GroupFolders(LotFolders(l)))
        ELSE /\ response = 200
             /\ Len(manifest_rows) = Len(world)
             /\ \A l \in 1..Len(world) : manifest_rows[l]["lotplan"] = Lotplan(l)
             /\ zf[Len(zf)].name = "manifest.csv"
             /\ Len(zf[Len(zf)].data) = Len(world)
             /\ \A l \in 1..Len(world) : zf[Len(zf)].data[l]["lotplan"] = Lotplan(l)
             /\ \A l \in 1..Len(world) :
                   /\ HasLandTypes(l) =>
                         /\ (Lotplan(l) \o "_landtypes.tif") \in ZipNames
                         /\ payload.format = "both" =>
                               (Lotplan(l) \o "_landtypes.kmz") \in ZipNames
                   /\ (HasVegetation(l) /\ payload.include_veg_tiff) =>
                         (Lotplan(l) \o "_vegetation.tif") \in ZipNames
                   /\ (HasVegetation(l) /\ payload.include_veg_kmz) =>
                         (Lotplan(l) \o "_vegetation.kmz") \in ZipNames

\* the land types of the first parcel raise in a ZIP bundle, and the
\* second parcel has its four files and its row
C23_Witness ==
    /\ pc = "done"
    /\ payload.format = "both"
    /\ world[1].fails = "landtypes"
    /\ manifest_rows[1]["lt_error"] = "raised"
    /\ HasLandTypes(2)
    /\ HasVegetation(2)
    /\ manifest_rows[2]["status_kmz"] = "ok"
    /\ Len(zf) = 5



\* the entries of the archive with the name
EntriesNamed(name) == {k \in 1..Len(archive) : archive[k].name = name}

\* C24: the archive that export_kmz answers for a parcel with land-type
\* shapes holds the entry doc.kml exactly once, with the document, and for
\* the icon of every point Style of the document an entry of that name
\* with bytes; and whatever assets write_kmz is given, it writes none
\* without a name or without data and writes all others.
C24_ArchiveHoldsDocumentAndIcons ==
    (pc = "done" /\ archive # None) =>
        /\ Cardinality(EntriesNamed("doc.kml")) = 1
        /\ archive[1] = Entry("doc.kml", kml)
        /\ \A k \in 2..Len(archive) : archive[k].name # "" /\ archive[k].data # NoData
        /\ \A a \in SeqRange(kmz_assets) :
              (a.name # "" /\ a.data # NoData) => a \in SeqRange(archive)
        /\ response = 200 =>
              /\ LotLandTypes(world[1]).value # <<>>
              /\ \A k \in StylesAt("icon") :
                    \E e \in EntriesNamed(Kids[k].href) : archive[e].data > 0

\* a parcel with land types and bores of two icons and one without
C24_Witness ==
    /\ pc = "done"
    /\ response = 200
    /\ Cardinality(StylesAt("icon")) = 2
    /\ Len(PointMarks) = 3
    /\ Len(archive) = 3
    /\ archive[2].name = "icons/au_sf.jpg"
    /\ archive[3].name = "icons/ex_ab.png"


\* C25: when every fetch of vector_geojson succeeds, the answer has status
\* 200 if at least one land-type shape was clipped for the parcel and 404
\* if none was, never another status, and its payload holds the easements
\* as a feature collection with a list of features; the 404 payload holds
\* an error message as well.
C25_VectorStatus ==
    (pc = "done" /\ world[1].fails = "none") =>
        /\ response \in {200, 404}
        /\ response = 200 <=> LotLandTypes(world[1]).value # <<>>
        /\ "easements" \in DOMAIN content
        /\ content.easements.type = "FeatureCollection"
        /\ DOMAIN content.easements.features = 1..Len(content.easements.features)
        /\ response = 404 <=> "error" \in DOMAIN content

====
